---- MODULE Spec2Model ----
(***************************************************************************)
(* The strategy backtesting engine of backend/app/services/                *)
(* backtest_service.py with the indicators of backend/app/utils/           *)
(* indicators.py it uses.                                                  *)
(*                                                                         *)
(* Numbers.  Money (capital, prices, equity, profit) is an integer number  *)
(* of thousandths of the currency unit, so that round(x, 2) is a real      *)
(* rounding, to a multiple of 10.  Share counts are integers.  Every other *)
(* real (an indicator, a percentage) is an exact fraction <<n, d>> with    *)
(* d >= 0: d > 0 is the finite value n/d, <<1,0>> and <<-1,0>> are the     *)
(* infinities and <<0,0>> is NaN, combined as IEEE-754 combines them.      *)
(***************************************************************************)
EXTENDS Integers, Sequences, FiniteSets, TLC

\* ------------------------------------------------------------------ numbers

Abs(x) == IF x < 0 THEN -x ELSE x

Sign(x) == IF x < 0 THEN -1 ELSE IF x > 0 THEN 1 ELSE 0

Max(a, b) == IF a >= b THEN a ELSE b

Min(a, b) == IF a <= b THEN a ELSE b

RECURSIVE GCD(_, _)
GCD(a, b) == IF b = 0 THEN a ELSE GCD(b, a % b)

NaN == <<0, 0>>

IsNaN(r) == r[2] = 0 /\ r[1] = 0

IsFinite(r) == r[2] > 0

\* A fraction in lowest terms with a positive denominator; an infinity keeps
\* only its sign.
Norm(n, d) ==
    IF d = 0 THEN <<Sign(n), 0>>
    ELSE LET g == GCD(Abs(n), Abs(d))
             s == IF d < 0 THEN -1 ELSE 1
         IN  <<s * (n \div g), s * (d \div g)>>

R(x) == <<x, 1>>

\* a + b, a - b, a / b, k * a on floats: NaN is contagious, inf - inf and 0/0
\* and inf/inf are NaN, x/0 is an infinity and x/inf is 0.
RAdd(a, b) ==
    IF IsNaN(a) \/ IsNaN(b) THEN NaN
    ELSE IF a[2] = 0 /\ b[2] = 0 THEN (IF a[1] = b[1] THEN a ELSE NaN)
    ELSE IF a[2] = 0 THEN a
    ELSE IF b[2] = 0 THEN b
    ELSE Norm(a[1] * b[2] + b[1] * a[2], a[2] * b[2])

RNeg(a) == <<-a[1], a[2]>>

RSub(a, b) == RAdd(a, RNeg(b))

RMul(a, b) ==
    IF IsNaN(a) \/ IsNaN(b) THEN NaN
    ELSE IF a[2] = 0 \/ b[2] = 0
         THEN (IF a[1] = 0 \/ b[1] = 0 THEN NaN ELSE <<Sign(a[1]) * Sign(b[1]), 0>>)
    ELSE Norm(a[1] * b[1], a[2] * b[2])

RDiv(a, b) ==
    IF IsNaN(a) \/ IsNaN(b) THEN NaN
    ELSE IF a[2] = 0 /\ b[2] = 0 THEN NaN
    ELSE IF a[2] = 0 THEN <<a[1] * (IF b[1] < 0 THEN -1 ELSE 1), 0>>
    ELSE IF b[2] = 0 THEN <<0, 1>>
    ELSE IF b[1] = 0 THEN <<Sign(a[1]), 0>>
    ELSE Norm(a[1] * b[2], a[2] * b[1])

\* Comparisons: every comparison with NaN is false.
RLt(a, b) ==
    /\ ~IsNaN(a) /\ ~IsNaN(b)
    /\ IF a[2] = 0 /\ b[2] = 0 THEN a[1] < b[1]
       ELSE IF a[2] = 0 THEN a[1] < 0
       ELSE IF b[2] = 0 THEN b[1] > 0
       ELSE a[1] * b[2] < b[1] * a[2]

REq(a, b) == ~IsNaN(a) /\ ~IsNaN(b) /\ ~RLt(a, b) /\ ~RLt(b, a)

RLe(a, b) == RLt(a, b) \/ REq(a, b)

RGt(a, b) == RLt(b, a)

RGe(a, b) == RLe(b, a)

\* round(): the nearest integer to n/d (d > 0), a tie going to the even one.
RoundHalfEven(n, d) ==
    LET q == n \div d
        r == n % d
    IN  IF 2 * r < d THEN q
        ELSE IF 2 * r > d THEN q + 1
        ELSE IF q % 2 = 0 THEN q ELSE q + 1

\* round(x, 2) of an amount of money: thousandths to the nearest hundredth,
\* still counted in thousandths.
Round2(x) == 10 * RoundHalfEven(x, 10)

\* round(r, k) of a finite fraction, as the integer number of 10^-k units
\* (units = 10^k).
RoundTo(r, units) == RoundHalfEven(r[1] * units, r[2])

\* int(n/d): truncation towards zero.
IntDiv(n, d) == Sign(n) * Sign(d) * (Abs(n) \div Abs(d))

\* ------------------------------------------------------------------- bounds

\* The longest frame handed to simulate_trades directly.
MaxBars == 3

\* ---------------------------------------------------------------- constants

RSI_OVERSOLD == 30
RSI_OVERBOUGHT == 70
MACD_FAST == 12
MACD_SLOW == 26
MACD_SIGNAL == 9
BOLLINGER_PERIOD == 20
BOLLINGER_STD == 2
MA_FAST == 10
MA_SLOW == 50

get_default_params ==
    [rsi_oversold |-> RSI_OVERSOLD, rsi_overbought |-> RSI_OVERBOUGHT,
     macd_fast |-> MACD_FAST, macd_slow |-> MACD_SLOW, macd_signal |-> MACD_SIGNAL,
     bb_period |-> BOLLINGER_PERIOD, bb_std |-> BOLLINGER_STD,
     ma_fast |-> MA_FAST, ma_slow |-> MA_SLOW]

Strategies == {"rsi_sma", "macd", "bollinger", "ma_crossover"}

\* -------------------------------------------------------------------- dates

\* The index of the frame: one calendar day per bar, strictly ascending.  The
\* k-th trading day, in a calendar that starts on 2023-12-27 and trades on
\* the 1st to the 28th of every month.
DateAt(k) ==
    LET n == 11 * 28 + 26 + (k - 1)
    IN  [y |-> 2023 + (n \div 336), m |-> ((n \div 28) % 12) + 1, d |-> (n % 28) + 1]

\* Mutant of Strftime: the format '%m-%d', which drops the year.
Strftime_MonthDay(date) == <<0, date.m, date.d>>

\* date.strftime('%Y-%m-%d'): the zero-padded fields, whose order as a string
\* is the order of the tuple.
Strftime(date) == <<date.y, date.m, date.d>>

\* ------------------------------------------------------------------- state

VARIABLES
    strategy,        \* run_backtest / simulate_trades argument
    params,          \* the parameter dict
    initial_capital, \* starting capital
    raw,             \* the fetched history (run_backtest): a sequence of bars
    hist,            \* the frame with its indicator columns, NaN rows dropped
    pc,              \* where the run is
    i,               \* simulate_trades: the number of rows already processed
    capital,         \* simulate_trades: cash
    shares,          \* simulate_trades: shares held
    position_open,   \* simulate_trades: LONG?
    entry_price,     \* simulate_trades: price of the open position
    trades,          \* simulate_trades: the trade list
    equity_curve,    \* simulate_trades: the equity curve
    summary,         \* calculate_metrics' result
    response,        \* run_backtest's return value
    other            \* the variables above of a second invocation, if there is one

\* The state of the other modules: it is used by the specifications of those
\* modules, and run_backtest has no access to it.
VARIABLES
    symbol,          \* formatters: the string a chain of calls starts from
    calls,           \* formatters: the calls made, each on the result before
    file_input,      \* parse_stock_csv: the CSV, as its header and its lines
    df,              \* parse_stock_csv: the frame read from it
    row_no,          \* parse_stock_csv: the number of rows already iterated
    results,         \* parse_stock_csv: the records collected
    csv_pc,          \* parse_stock_csv: where the call is
    transactions,    \* portfolio: the rows of the transaction table
    sessions,        \* portfolio: the request each session is serving
    now,             \* rate limiter: time.time()
    buckets,         \* rate limiter: self.buckets
    minute_requests, \* rate limiter: self.minute_requests
    verdict          \* rate limiter: what each _check_rate_limit call returned

formatter_state == <<symbol, calls>>

csv_state == <<file_input, df, row_no, results, csv_pc>>

portfolio_state == <<transactions, sessions>>

limiter_state == <<now, buckets, minute_requests, verdict>>

elsewhere == <<formatter_state, csv_state, portfolio_state, limiter_state>>

\* The variables of run_backtest and of the functions it calls.
backtest == <<strategy, params, initial_capital, raw, hist, pc, i, capital, shares,
              position_open, entry_price, trades, equity_curve, summary, response, other>>

vars == <<backtest, elsewhere>>

\* What an invocation only reads, and what it cannot reach at all.
inputs == <<strategy, params, initial_capital, raw, hist, other, elsewhere>>

None == [none |-> TRUE]

\* The other modules before any of their functions is called.
FormattersIdle ==
    /\ symbol = <<>>
    /\ calls = <<>>

CsvIdle ==
    /\ file_input = None
    /\ df = None
    /\ row_no = 0
    /\ results = <<>>
    /\ csv_pc = "idle"

PortfolioIdle ==
    /\ transactions = {}
    /\ sessions = <<>>

LimiterIdle ==
    /\ now = 0
    /\ buckets = <<>>
    /\ minute_requests = <<>>
    /\ verdict = <<>>

ElsewhereIdle == FormattersIdle /\ CsvIdle /\ PortfolioIdle /\ LimiterIdle

sim == <<i, capital, shares, position_open, entry_price, trades, equity_curve>>

\* --------------------------------------------------------- generate_signals

\* f"{x:.1f}" and f"{x:.2f}": the label and the value in tenths / hundredths.
Fmt1(label, x) == <<label, RoundTo(x, 10)>>

Fmt2(label, x) == <<label, RoundTo(x, 100)>>

\* Mutant of generate_signals: without the idx > 0 guards; on the first row
\* hist.iloc[idx - 1] is then hist.iloc[-1], the last row of the frame.
generate_signals_NoGuard(row, h, idx, strat, p) ==
    LET current_price == R(row.Close)
        before == h[IF idx = 0 THEN Len(h) ELSE idx]
    IN
    CASE strat = "rsi_sma" ->
           [buy  |-> RGt(current_price, row.SMA50) /\ RLt(row.RSI, R(p.rsi_oversold)),
            sell |-> RGt(row.RSI, R(p.rsi_overbought)) \/ RLt(current_price, row.SMA50),
            info |-> Fmt1("RSI", row.RSI)]
      [] strat = "macd" ->
           [buy  |-> RLt(before.MACD_Hist, R(0)) /\ RGt(row.MACD_Hist, R(0)),
            sell |-> RGt(before.MACD_Hist, R(0)) /\ RLt(row.MACD_Hist, R(0)),
            info |-> Fmt2("MACD", row.MACD)]
      [] strat = "bollinger" ->
           [buy  |-> RLe(current_price, row.BB_Lower),
            sell |-> RGe(current_price, row.BB_Upper) \/ RLt(current_price, row.BB_Mid),
            info |-> Fmt1("BB%", IF ~REq(row.BB_Upper, row.BB_Lower)
                                 THEN RMul(RDiv(RSub(current_price, row.BB_Lower),
                                                RSub(row.BB_Upper, row.BB_Lower)), R(100))
                                 ELSE R(50))]
      [] strat = "ma_crossover" ->
           [buy  |-> RLe(before.MA_Fast, before.MA_Slow) /\ RGt(row.MA_Fast, row.MA_Slow),
            sell |-> RGe(before.MA_Fast, before.MA_Slow) /\ RLt(row.MA_Fast, row.MA_Slow),
            info |-> Fmt1("Fast", row.MA_Fast)]
      [] OTHER -> [buy |-> FALSE, sell |-> FALSE, info |-> <<"", 0>>]

\* Mutant of generate_signals: each comparison decides a tie the other way.
generate_signals_Strict(row, h, idx, strat, p) ==
    LET current_price == R(row.Close) IN
    CASE strat = "rsi_sma" ->
           [buy  |-> RGt(current_price, row.SMA50) /\ RLe(row.RSI, R(p.rsi_oversold)),
            sell |-> RGe(row.RSI, R(p.rsi_overbought)) \/ RLe(current_price, row.SMA50),
            info |-> Fmt1("RSI", row.RSI)]
      [] strat = "macd" ->
           [buy  |-> idx > 0 /\ RLe(h[idx].MACD_Hist, R(0)) /\ RGt(row.MACD_Hist, R(0)),
            sell |-> idx > 0 /\ RGe(h[idx].MACD_Hist, R(0)) /\ RLt(row.MACD_Hist, R(0)),
            info |-> Fmt2("MACD", row.MACD)]
      [] strat = "bollinger" ->
           [buy  |-> RLt(current_price, row.BB_Lower),
            sell |-> RGt(current_price, row.BB_Upper) \/ RLt(current_price, row.BB_Mid),
            info |-> Fmt1("BB%", R(50))]
      [] strat = "ma_crossover" ->
           [buy  |-> idx > 0 /\ RLt(h[idx].MA_Fast, h[idx].MA_Slow)
                       /\ RGt(row.MA_Fast, row.MA_Slow),
            sell |-> idx > 0 /\ RGt(h[idx].MA_Fast, h[idx].MA_Slow)
                       /\ RLt(row.MA_Fast, row.MA_Slow),
            info |-> Fmt1("Fast", row.MA_Fast)]
      [] OTHER -> [buy |-> FALSE, sell |-> FALSE, info |-> <<"", 0>>]

\* row is hist.iloc[idx] (idx counts from 0, the frame from 1).
generate_signals(row, h, idx, strat, p) ==
    LET current_price == R(row.Close) IN
    CASE strat = "rsi_sma" ->
           [buy  |-> RGt(current_price, row.SMA50) /\ RLt(row.RSI, R(p.rsi_oversold)),
            sell |-> RGt(row.RSI, R(p.rsi_overbought)) \/ RLt(current_price, row.SMA50),
            info |-> Fmt1("RSI", row.RSI)]
      [] strat = "macd" ->
           LET hist_val == row.MACD_Hist
               prev_hist == h[idx].MACD_Hist
           IN  [buy  |-> idx > 0 /\ RLt(prev_hist, R(0)) /\ RGt(hist_val, R(0)),
                sell |-> idx > 0 /\ RGt(prev_hist, R(0)) /\ RLt(hist_val, R(0)),
                info |-> Fmt2("MACD", row.MACD)]
      [] strat = "bollinger" ->
           LET lower == row.BB_Lower
               upper == row.BB_Upper
               mid == row.BB_Mid
               bb_pct == IF ~REq(upper, lower)
                         THEN RMul(RDiv(RSub(current_price, lower), RSub(upper, lower)), R(100))
                         ELSE R(50)
           IN  [buy  |-> RLe(current_price, lower),
                sell |-> RGe(current_price, upper) \/ RLt(current_price, mid),
                info |-> Fmt1("BB%", bb_pct)]
      [] strat = "ma_crossover" ->
           LET ma_fast == row.MA_Fast
               ma_slow == row.MA_Slow
               prev_fast == h[idx].MA_Fast
               prev_slow == h[idx].MA_Slow
           IN  [buy  |-> idx > 0 /\ RLe(prev_fast, prev_slow) /\ RGt(ma_fast, ma_slow),
                sell |-> idx > 0 /\ RGe(prev_fast, prev_slow) /\ RLt(ma_fast, ma_slow),
                info |-> Fmt1("Fast", ma_fast)]
      [] OTHER -> [buy |-> FALSE, sell |-> FALSE, info |-> <<"", 0>>]

\* ---------------------------------------------------------------- exceptions
\* An exception is the text str(e) that the except clause of run_backtest
\* puts in the failure; NoError stands for "nothing was raised".
NoError == ""

\* The keys of ks, in their order, that the params dict p lacks.
MissingKeys(ks, p) == SelectSeq(ks, LAMBDA k : k \notin DOMAIN p)

\* str(KeyError(k))
KeyErrorText(k) == "'" \o k \o "'"

\* The keys of params that generate_signals reads on a row, in the order it
\* reads them: rsi_oversold only behind 'current_price > sma50 and'.
SignalKeys(row, strat) ==
    IF strat = "rsi_sma"
    THEN (IF RGt(R(row.Close), row.SMA50) THEN <<"rsi_oversold">> ELSE <<>>)
           \o <<"rsi_overbought">>
    ELSE <<>>

\* The keys of params that the strategy's branch of run_backtest reads.
IndicatorKeys(strat) ==
    CASE strat = "macd" -> <<"macd_fast", "macd_slow", "macd_signal">>
      [] strat = "bollinger" -> <<"bb_period", "bb_std">>
      [] strat = "ma_crossover" -> <<"ma_fast", "ma_slow">>
      [] OTHER -> <<>>

\* int(capital * 0.95 / current_price) at a close of 0: the quotient is the
\* float inf (nan when capital is 0 too), which int() refuses.
IntOfQuotientError(cap) ==
    IF cap = 0 THEN "cannot convert float NaN to integer"
    ELSE "cannot convert float infinity to integer"

\* --------------------------------------------------------------- indicators
\* Series are sequences of fractions, indexed from 1 (pandas counts from 0).

\* The exact square root of a fraction that has one.
ISqrt(n) == CHOOSE k \in 0..n : k * k = n

RSqrt(a) == IF ~IsFinite(a) THEN a ELSE <<ISqrt(a[1]), ISqrt(a[2])>>

\* The sum of x[lo..hi], by halves.
RECURSIVE RSum(_, _, _)
RSum(x, lo, hi) ==
    IF lo > hi THEN R(0)
    ELSE IF lo = hi THEN x[lo]
    ELSE LET mid == (lo + hi) \div 2
         IN  RAdd(RSum(x, lo, mid), RSum(x, mid + 1, hi))

\* x.rolling(window).mean(): NaN until the window is full, and wherever the
\* window holds a NaN.
RollingMean(x, window) ==
    [k \in 1..Len(x) |->
       IF k < window THEN NaN
       ELSE RDiv(RSum(x, k - window + 1, k), R(window))]

\* x.rolling(window).std(): the sample standard deviation (ddof = 1).
RollingStd(x, window) ==
    LET mean == RollingMean(x, window)
        sq(k) == [j \in 1..Len(x) |-> RMul(RSub(x[j], mean[k]), RSub(x[j], mean[k]))]
    IN  [k \in 1..Len(x) |->
           IF k < window THEN NaN
           ELSE RSqrt(RDiv(RSum(sq(k), k - window + 1, k), R(window - 1)))]

\* prices.diff()
Diff(x) == [k \in 1..Len(x) |-> IF k = 1 THEN NaN ELSE RSub(x[k], x[k - 1])]

\* The period calculate_rsi is called with (its default), and the SMA window.
RSI_PERIOD == 14

SMA_WINDOW == 50

calculate_rsi(prices, period) ==
    LET delta == Diff(prices)
        \* delta.where(delta > 0, 0) and -delta.where(delta < 0, 0)
        up == [k \in 1..Len(prices) |-> IF RGt(delta[k], R(0)) THEN delta[k] ELSE R(0)]
        down == [k \in 1..Len(prices) |-> IF RLt(delta[k], R(0)) THEN RNeg(delta[k]) ELSE R(0)]
        gain == RollingMean(up, period)
        loss == RollingMean(down, period)
    IN  [k \in 1..Len(prices) |->
           LET rs == RDiv(gain[k], loss[k])
           IN  RSub(R(100), RDiv(R(100), RAdd(R(1), rs)))]

\* x.ewm(span=span, adjust=False).mean(): y1 = x1, y = (1 - a) * y + a * x
\* with a = 2 / (span + 1); acc holds the values computed so far.
RECURSIVE EwmLoop(_, _, _)
EwmLoop(x, span, acc) ==
    IF Len(acc) = Len(x) THEN acc
    ELSE LET k == Len(acc) + 1
             a == Norm(2, span + 1)
             y == IF k = 1 THEN x[1]
                  ELSE RAdd(RMul(RSub(R(1), a), acc[k - 1]), RMul(a, x[k]))
         IN  EwmLoop(x, span, Append(acc, y))

Ewm(x, span) == EwmLoop(x, span, <<>>)

calculate_macd(prices, fast, slow, signal) ==
    LET ema_fast == Ewm(prices, fast)
        ema_slow == Ewm(prices, slow)
        macd_line == [k \in 1..Len(prices) |-> RSub(ema_fast[k], ema_slow[k])]
        signal_line == Ewm(macd_line, signal)
    IN  [macd |-> macd_line,
         signal |-> signal_line,
         histogram |-> [k \in 1..Len(prices) |-> RSub(macd_line[k], signal_line[k])]]

calculate_bollinger_bands(prices, period, std_dev) ==
    LET sma == RollingMean(prices, period)
        std == RollingStd(prices, period)
    IN  [sma |-> sma,
         upper |-> [k \in 1..Len(prices) |-> RAdd(sma[k], RMul(R(std_dev), std[k]))],
         lower |-> [k \in 1..Len(prices) |-> RSub(sma[k], RMul(R(std_dev), std[k]))]]

\* ---------------------------------------------------------- simulate_trades

\* Mutant of BuyShares: the share count rounded up instead of down.
BuyShares_RoundUp(cap, price) == IntDiv(cap * 95 + 100 * price - 1, 100 * price)

\* Mutant of BuyShares: all the cash is spent, without the 5% reserve.
BuyShares_AllCash(cap, price) == IntDiv(cap, price)

\* int(capital * 0.95 / current_price)
BuyShares(cap, price) == IntDiv(cap * 95, 100 * price)

\* Mutant of EquityPoint: the open position is not marked to market.
EquityPoint_CashOnly(row, cap, sh) ==
    [date |-> Strftime(row.date), equity |-> Round2(cap), price |-> Round2(row.Close)]

\* The point appended before the bar's trade.
EquityPoint(row, cap, sh) ==
    [date |-> Strftime(row.date),
     equity |-> Round2(cap + sh * row.Close),
     price |-> Round2(row.Close)]

BuyTrade(row, sh, info) ==
    [type |-> "BUY", date |-> Strftime(row.date), price |-> Round2(row.Close),
     shares |-> sh, signal |-> info]

\* (exit_price - entry_price) * shares, rounded as the trade records it.
Profit(exit_price, entry, sh) == Round2((exit_price - entry) * sh)

\* Mutant of ProfitPct: the gain is divided by the exit price.
ProfitPct_OverExit(exit_price, entry) ==
    RoundTo(RMul(RDiv(R(exit_price - entry), R(exit_price)), R(100)), 100)

\* ((exit_price - entry_price) / entry_price) * 100 rounded to 2 places, in
\* hundredths of a percent.
ProfitPct(exit_price, entry) ==
    RoundTo(RMul(RDiv(R(exit_price - entry), R(entry)), R(100)), 100)

SellTrade(row, sh, entry, info) ==
    [type |-> "SELL", date |-> Strftime(row.date), price |-> Round2(row.Close),
     shares |-> sh, profit |-> Profit(row.Close, entry, sh),
     profitPct |-> ProfitPct(row.Close, entry), signal |-> info]

\* Mutant of EndTrade: the first row of the frame instead of the last.
EndTrade_FirstRow(h, sh, entry) ==
    [type |-> "SELL (End)", date |-> Strftime(h[1].date), price |-> Round2(h[1].Close),
     shares |-> sh, profit |-> Round2((h[1].Close - entry) * sh),
     profitPct |-> RoundTo(RMul(RDiv(R(h[1].Close - entry), R(entry)), R(100)), 100)]

\* The trade of "Close any open position at the end": at the last row's close
\* and date.
EndTrade(h, sh, entry) ==
    LET final_price == h[Len(h)].Close
    IN  [type |-> "SELL (End)", date |-> Strftime(h[Len(h)].date),
         price |-> Round2(final_price), shares |-> sh,
         profit |-> Profit(final_price, entry, sh),
         profitPct |-> ProfitPct(final_price, entry)]

\* Mutant of TakesBuy: a buy signal is followed whatever the position.
TakesBuy_AnyPosition(open, sig) == sig.buy

\* Which branch of "Execute trades" a bar takes.
TakesBuy(open, sig) == ~open /\ sig.buy

TakesSell(open, sig) == ~TakesBuy(open, sig) /\ open /\ sig.sell

\* What one iteration of the loop raises, if anything: a KeyError in
\* generate_signals, or the conversion error of a BUY at a close of 0.
BarError(row, h, idx, strat, p, open, cap) ==
    LET missing == MissingKeys(SignalKeys(row, strat), p) IN
    IF missing # <<>> THEN KeyErrorText(missing[1])
    ELSE IF TakesBuy(open, generate_signals(row, h, idx, strat, p)) /\ row.Close = 0
    THEN IntOfQuotientError(cap)
    ELSE NoError

\* Mutant of SimulateTradesBar: the SELL branch is an "if" of its own, entered
\* with the position the BUY branch has just opened.
SimulateTradesBar_TwoIfs ==
    /\ pc = "loop"
    /\ i < Len(hist)
    /\ BarError(hist[i + 1], hist, i, strategy, params, position_open, capital) = NoError
    /\ LET row == hist[i + 1]
           current_price == row.Close
           sig == generate_signals(row, hist, i, strategy, params)
           n == BuyShares(capital, current_price)
           bought == TakesBuy(position_open, sig) /\ n > 0
           held == IF TakesBuy(position_open, sig) THEN n ELSE shares
           entry == IF bought THEN current_price ELSE entry_price
           afterBuy == IF bought THEN Append(trades, BuyTrade(row, n, sig.info)) ELSE trades
       IN  /\ equity_curve' = Append(equity_curve, EquityPoint(row, capital, shares))
           /\ IF (bought \/ position_open) /\ sig.sell
              THEN /\ capital' = IF bought THEN capital ELSE capital + shares * current_price
                   /\ trades' = Append(afterBuy, SellTrade(row, held, entry, sig.info))
                   /\ shares' = 0
                   /\ position_open' = FALSE
                   /\ entry_price' = 0
              ELSE /\ capital' = IF bought THEN capital - n * current_price ELSE capital
                   /\ trades' = afterBuy
                   /\ shares' = held
                   /\ position_open' = (bought \/ position_open)
                   /\ entry_price' = entry
    /\ i' = i + 1
    /\ UNCHANGED <<inputs, pc, summary, response>>

\* One iteration of the loop over hist.iterrows().
SimulateTradesBar ==
    /\ pc = "loop"
    /\ i < Len(hist)
    /\ BarError(hist[i + 1], hist, i, strategy, params, position_open, capital) = NoError
    /\ LET row == hist[i + 1]
           current_price == row.Close
           sig == generate_signals(row, hist, i, strategy, params)
           n == BuyShares(capital, current_price)
       IN  /\ equity_curve' = Append(equity_curve, EquityPoint(row, capital, shares))
           /\ IF TakesBuy(position_open, sig)
              THEN IF n > 0
                   THEN /\ shares' = n
                        /\ entry_price' = current_price
                        /\ capital' = capital - n * current_price
                        /\ position_open' = TRUE
                        /\ trades' = Append(trades, BuyTrade(row, n, sig.info))
                   ELSE /\ shares' = n
                        /\ UNCHANGED <<entry_price, capital, position_open, trades>>
              ELSE IF TakesSell(position_open, sig)
              THEN /\ capital' = capital + shares * current_price
                   /\ trades' = Append(trades, SellTrade(row, shares, entry_price, sig.info))
                   /\ shares' = 0
                   /\ position_open' = FALSE
                   /\ entry_price' = 0
              ELSE UNCHANGED <<capital, shares, position_open, entry_price, trades>>
    /\ i' = i + 1
    /\ UNCHANGED <<inputs, pc, summary, response>>

\* Mutant of SimulateTradesRaise: the failure carries what was computed so far.
SimulateTradesRaise_Partial ==
    /\ pc = "loop"
    /\ i < Len(hist)
    /\ LET row == hist[i + 1]
           err == BarError(row, hist, i, strategy, params, position_open, capital)
       IN  /\ err # NoError
           /\ equity_curve' = Append(equity_curve, EquityPoint(row, capital, shares))
           /\ response' = [success |-> FALSE, error |-> err, trades |-> trades,
                           equityCurve |-> equity_curve']
    /\ pc' = "done"
    /\ UNCHANGED <<inputs, i, capital, shares, position_open, entry_price, trades, summary>>

\* An iteration that raises: the equity point is already appended, the
\* exception leaves simulate_trades and run_backtest returns the failure.
SimulateTradesRaise ==
    /\ pc = "loop"
    /\ i < Len(hist)
    /\ LET row == hist[i + 1]
           err == BarError(row, hist, i, strategy, params, position_open, capital)
       IN  /\ err # NoError
           /\ equity_curve' = Append(equity_curve, EquityPoint(row, capital, shares))
           /\ response' = [success |-> FALSE, error |-> err]
    /\ pc' = "done"
    /\ UNCHANGED <<inputs, i, capital, shares, position_open, entry_price, trades, summary>>

\* Mutant of SimulateTradesEnd: an open position is left open.
SimulateTradesEnd_NoClose ==
    /\ pc = "loop"
    /\ i = Len(hist)
    /\ pc' = "metrics"
    /\ UNCHANGED <<inputs, i, capital, shares, position_open, entry_price, trades,
                   equity_curve, summary, response>>

\* Mutant of SimulateTradesEnd: the forced close pays the entry price.
SimulateTradesEnd_AtEntry ==
    /\ pc = "loop"
    /\ i = Len(hist)
    /\ IF position_open
       THEN /\ capital' = capital + shares * entry_price
            /\ trades' = Append(trades, EndTrade(hist, shares, entry_price))
       ELSE UNCHANGED <<capital, trades>>
    /\ pc' = "metrics"
    /\ UNCHANGED <<inputs, i, shares, position_open, entry_price, equity_curve,
                   summary, response>>

\* After the loop: close any open position at the end, and return.
SimulateTradesEnd ==
    /\ pc = "loop"
    /\ i = Len(hist)
    /\ IF position_open
       THEN /\ capital' = capital + shares * hist[Len(hist)].Close
            /\ trades' = Append(trades, EndTrade(hist, shares, entry_price))
       ELSE UNCHANGED <<capital, trades>>
    /\ pc' = "metrics"
    /\ UNCHANGED <<inputs, i, shares, position_open, entry_price, equity_curve,
                   summary, response>>

\* -------------------------------------------------------- calculate_metrics

\* t['type'].startswith('SELL'), over the three types a trade has.
StartsWithSELL(type) == type \in {"SELL", "SELL (End)"}

IsSellTrade(t) == StartsWithSELL(t.type)

IsWinning(t) == t.profit > 0

\* Mutant of IsLosing: a trade without profit or loss is not counted as lost.
IsLosing_Strict(t) == t.profit < 0

IsLosing(t) == t.profit <= 0

RECURSIVE SumProfit(_)
SumProfit(ts) == IF ts = <<>> THEN 0 ELSE ts[1].profit + SumProfit(Tail(ts))

\* round(np.mean([t['profit'] ...]), 2) if the list is not empty else 0
AvgProfit(ts) ==
    IF ts = <<>> THEN 0 ELSE 10 * RoundHalfEven(SumProfit(ts), 10 * Len(ts))

\* Mutant of DrawdownLoop: the fall is measured from the first equity value,
\* not from the running peak.
DrawdownLoop_FromStart(eqs, k, peak, max_drawdown) ==
    LET falls == {RMul(RDiv(R(eqs[1] - eqs[j]), R(eqs[1])), R(100)) : j \in k..Len(eqs)}
    IN  IF falls = {} THEN max_drawdown
        ELSE CHOOSE d \in falls : \A e \in falls : RLe(e, d)

\* The loop over equity_values from position k on, with the running peak and
\* the largest drawdown (a percentage) so far.
RECURSIVE DrawdownLoop(_, _, _, _)
DrawdownLoop(eqs, k, peak, max_drawdown) ==
    IF k > Len(eqs) THEN max_drawdown
    ELSE LET eq == eqs[k]
             peak2 == IF eq > peak THEN eq ELSE peak
             drawdown == RMul(RDiv(R(peak2 - eq), R(peak2)), R(100))
             max2 == IF RGt(drawdown, max_drawdown) THEN drawdown ELSE max_drawdown
         IN  \* (the test only makes the two values be computed before the call)
             IF peak2 >= eq /\ max2 = max2
             THEN DrawdownLoop(eqs, k + 1, peak2, max2)
             ELSE max2

MaxDrawdown(curve, initial) ==
    LET equity_values == [k \in 1..Len(curve) |-> curve[k].equity]
        peak == IF equity_values # <<>> THEN equity_values[1] ELSE initial
    IN  DrawdownLoop(equity_values, 1, peak, R(0))

\* ((b - a) / a) * 100
PctChange(a, b) == RMul(RDiv(R(b - a), R(a)), R(100))

calculate_metrics(ts, curve, initial, h) ==
    LET final_capital == IF curve # <<>> THEN curve[Len(curve)].equity ELSE initial
        total_return == PctChange(initial, final_capital)
        sell_trades == SelectSeq(ts, IsSellTrade)
        winning_trades == SelectSeq(sell_trades, IsWinning)
        losing_trades == SelectSeq(sell_trades, IsLosing)
        win_rate == IF sell_trades # <<>>
                    THEN RMul(RDiv(R(Len(winning_trades)), R(Len(sell_trades))), R(100))
                    ELSE R(0)
        buy_hold_return == PctChange(h[1].Close, h[Len(h)].Close)
    IN  [initialCapital |-> initial,
         finalCapital |-> Round2(final_capital),
         totalReturn |-> RoundTo(total_return, 100),
         buyHoldReturn |-> RoundTo(buy_hold_return, 100),
         outperformance |-> RoundTo(RSub(total_return, buy_hold_return), 100),
         totalTrades |-> Len(sell_trades),
         winningTrades |-> Len(winning_trades),
         losingTrades |-> Len(losing_trades),
         winRate |-> RoundTo(win_rate, 10),
         avgWin |-> AvgProfit(winning_trades),
         avgLoss |-> AvgProfit(losing_trades),
         maxDrawdown |-> RoundTo(MaxDrawdown(curve, initial), 100),
         startDate |-> Strftime(h[1].date),
         endDate |-> Strftime(h[Len(h)].date)]

CalculateMetrics ==
    /\ pc = "metrics"
    /\ summary' = calculate_metrics(trades, equity_curve, initial_capital, hist)
    /\ pc' = "return"
    /\ UNCHANGED <<inputs, sim, response>>

\* ------------------------------------------- simulate_trades on a given frame

Capitals == {1000, 3000}

Prices == {400, 1004, 1507}

\* The rows a frame of a strategy is made of: a close and the strategy's
\* indicator columns.
RowChoices(strat) ==
    CASE strat = "rsi_sma" ->
           [Close : Prices, SMA50 : {R(1004)}, RSI : {R(20), R(30), R(70), R(80)}]
      [] strat = "macd" ->
           [Close : Prices, MACD : {R(0)}, MACD_Hist : {R(-1), R(0), R(1)}]
      [] strat = "bollinger" ->
           [Close : Prices, BB_Lower : {R(400)}, BB_Mid : {R(1004)}, BB_Upper : {R(1507)}]
             \cup [Close : {1004}, BB_Lower : {R(1004)}, BB_Mid : {R(1004)},
                   BB_Upper : {R(1004)}]
      [] strat = "ma_crossover" ->
           [Close : {400, 1507}, MA_Fast : {R(1000), R(1004)}, MA_Slow : {R(1000), R(1004)}]

WithDate(row, k) == [f \in DOMAIN row \cup {"date"} |-> IF f = "date" THEN DateAt(k) ELSE row[f]]

Frames(strat) ==
    UNION {{[k \in 1..n |-> WithDate(f[k], k)] : f \in [1..n -> RowChoices(strat)]}
           : n \in 1..MaxBars}

SimStart ==
    /\ pc = "loop"
    /\ i = 0
    /\ capital = initial_capital
    /\ shares = 0
    /\ position_open = FALSE
    /\ entry_price = 0
    /\ trades = <<>>
    /\ equity_curve = <<>>

Init ==
    /\ strategy \in Strategies
    /\ params = get_default_params
    /\ initial_capital \in Capitals
    /\ raw = <<>>
    /\ hist \in Frames(strategy)
    /\ SimStart
    /\ summary = None
    /\ response = None
    /\ other = None
    /\ ElsewhereIdle

Next == SimulateTradesBar \/ SimulateTradesEnd \/ CalculateMetrics

Spec == Init /\ [][Next]_vars

\* ------------------------------------------------------------- run_backtest

\* The bars a fetched history needs, and the rows the trimmed frame needs.
MIN_HISTORY == 60

MIN_TRIMMED == 10

\* The trades and (about) the equity points a payload keeps.
TRADES_KEPT == 20

CURVE_POINTS == 50

\* How many bars more than MIN_HISTORY a fetched history has at most.
ExtraBars == 1

\* The rows of hist with the strategy's indicator columns attached.
AddIndicators(bars, strat, p) ==
    LET close == [k \in 1..Len(bars) |-> R(bars[k].Close)] IN
    CASE strat = "rsi_sma" ->
           LET sma50 == RollingMean(close, SMA_WINDOW)
               rsi == calculate_rsi(close, RSI_PERIOD)
           IN  [k \in 1..Len(bars) |->
                  [date |-> bars[k].date, Close |-> bars[k].Close,
                   SMA50 |-> sma50[k], RSI |-> rsi[k]]]
      [] strat = "macd" ->
           LET m == calculate_macd(close, p.macd_fast, p.macd_slow, p.macd_signal)
           IN  [k \in 1..Len(bars) |->
                  [date |-> bars[k].date, Close |-> bars[k].Close, MACD |-> m.macd[k],
                   MACD_Signal |-> m.signal[k], MACD_Hist |-> m.histogram[k]]]
      [] strat = "bollinger" ->
           LET b == calculate_bollinger_bands(close, p.bb_period, p.bb_std)
           IN  [k \in 1..Len(bars) |->
                  [date |-> bars[k].date, Close |-> bars[k].Close, BB_Mid |-> b.sma[k],
                   BB_Upper |-> b.upper[k], BB_Lower |-> b.lower[k]]]
      [] strat = "ma_crossover" ->
           LET fast == RollingMean(close, p.ma_fast)
               slow == RollingMean(close, p.ma_slow)
           IN  [k \in 1..Len(bars) |->
                  [date |-> bars[k].date, Close |-> bars[k].Close,
                   MA_Fast |-> fast[k], MA_Slow |-> slow[k]]]

\* hist.dropna(): the rows without a NaN, in their order.
RowDefined(row) == \A f \in DOMAIN row \ {"date", "Close"} : ~IsNaN(row[f])

DropNa(rows) == SelectSeq(rows, RowDefined)

StrategyName(strat, p) ==
    CASE strat = "rsi_sma" -> <<"RSI + SMA50">>
      [] strat = "macd" -> <<"MACD", p.macd_fast, p.macd_slow, p.macd_signal>>
      [] strat = "bollinger" -> <<"Bollinger Bands", p.bb_period, p.bb_std>>
      [] strat = "ma_crossover" -> <<"MA Crossover", p.ma_fast, p.ma_slow>>

Failure(msg) == [success |-> FALSE, error |-> msg]

\* Mutant of LastN: seq[-(n - 1):], one entry fewer.
LastN_OneLess(seq, n) == SubSeq(seq, Max(1, Len(seq) - n + 2), Len(seq))

\* seq[-n:]
LastN(seq, n) == SubSeq(seq, Max(1, Len(seq) - n + 1), Len(seq))

\* seq[::stride]
EveryNth(seq, stride) ==
    [k \in 1..((Len(seq) + stride - 1) \div stride) |-> seq[(k - 1) * stride + 1]]

\* Mutant of RunUnknownStrategy: the strategy id is checked before the length
\* of the history.
RunUnknownStrategy_First ==
    /\ pc = "start"
    /\ strategy \notin Strategies
    /\ response' = Failure("Unknown strategy: " \o strategy)
    /\ pc' = "done"
    /\ UNCHANGED <<inputs, sim, summary>>

\* Mutant of RunNotEnoughRows: the frame is simulated however short it is.
RunNotEnoughRows_Degenerate ==
    /\ pc = "start"
    /\ Len(raw) >= MIN_HISTORY
    /\ strategy \in Strategies
    /\ MissingKeys(IndicatorKeys(strategy), params) = <<>>
    /\ LET trimmed == DropNa(AddIndicators(raw, strategy, params))
       IN  /\ Len(trimmed) < MIN_TRIMMED
           /\ hist' = trimmed
    /\ pc' = "loop"
    /\ UNCHANGED <<strategy, params, initial_capital, raw, other, elsewhere, sim, summary,
                   response>>

\* if len(hist) < 60: return the failure.
RunNotEnoughHistory ==
    /\ pc = "start"
    /\ Len(raw) < MIN_HISTORY
    /\ response' = Failure("Not enough historical data (need 60+ days)")
    /\ pc' = "done"
    /\ UNCHANGED <<inputs, sim, summary>>

\* The else branch of the strategy dispatch.
RunUnknownStrategy ==
    /\ pc = "start"
    /\ Len(raw) >= MIN_HISTORY
    /\ strategy \notin Strategies
    /\ response' = Failure("Unknown strategy: " \o strategy)
    /\ pc' = "done"
    /\ UNCHANGED <<inputs, sim, summary>>

\* The strategy's branch reads a key that params lacks: the KeyError is caught
\* by the except clause.
RunRaise ==
    /\ pc = "start"
    /\ Len(raw) >= MIN_HISTORY
    /\ strategy \in Strategies
    /\ LET missing == MissingKeys(IndicatorKeys(strategy), params)
       IN  /\ missing # <<>>
           /\ response' = Failure(KeyErrorText(missing[1]))
    /\ pc' = "done"
    /\ UNCHANGED <<inputs, sim, summary>>

\* The indicators are attached, the NaN rows dropped, and too few rows remain.
RunNotEnoughRows ==
    /\ pc = "start"
    /\ Len(raw) >= MIN_HISTORY
    /\ strategy \in Strategies
    /\ MissingKeys(IndicatorKeys(strategy), params) = <<>>
    /\ Len(DropNa(AddIndicators(raw, strategy, params))) < MIN_TRIMMED
    /\ response' = Failure("Not enough data after indicator calculation")
    /\ pc' = "done"
    /\ UNCHANGED <<inputs, sim, summary>>

\* The indicators are attached, the NaN rows dropped, and simulate_trades is
\* entered with the frame.
RunSimulate ==
    /\ pc = "start"
    /\ Len(raw) >= MIN_HISTORY
    /\ strategy \in Strategies
    /\ MissingKeys(IndicatorKeys(strategy), params) = <<>>
    /\ LET trimmed == DropNa(AddIndicators(raw, strategy, params))
       IN  /\ Len(trimmed) >= MIN_TRIMMED
           /\ hist' = trimmed
    /\ pc' = "loop"
    /\ UNCHANGED <<strategy, params, initial_capital, raw, other, elsewhere, sim, summary,
                   response>>

\* The success payload.
RunReturn ==
    /\ pc = "return"
    /\ response' = [success |-> TRUE,
                    strategy |-> strategy,
                    strategyName |-> StrategyName(strategy, params),
                    summary |-> summary,
                    trades |-> LastN(trades, TRADES_KEPT),
                    equityCurve |-> EveryNth(equity_curve,
                                             Max(1, Len(equity_curve) \div CURVE_POINTS))]
    /\ pc' = "done"
    /\ UNCHANGED <<inputs, sim, summary>>

\* ------------------------------------------------ the histories of the runs

SmallParams ==
    [get_default_params EXCEPT !.macd_fast = 1, !.macd_slow = 3, !.macd_signal = 3,
                               !.bb_period = 4, !.bb_std = 1,
                               !.ma_fast = 2, !.ma_slow = 4]

\* Moves of the last bars of a "bump" history, in steps from the base price.
BumpPattern == <<1, 2, 1, -2, -3, -1>>

\* The closes of a history of n bars:
\*   flat       the base price throughout
\*   rising     one step up on every bar
\*   late_rise  flat, then one step up on each of the last 3 bars
\*   rise_fall  4 steps up a bar, then one step down on each of the last 15
\*   bump       flat, then the bump pattern
\*   spike      flat, with one bar one step down, 3 bars before the end
\*   crash      flat, with one bar at 0, 3 bars before the end
\*   gap        flat, one step higher from 18 bars before the end on, and
\*              back at the base from 3 bars before the end on
ShapeClose(shape, k) ==
    LET n == shape.n
        b == shape.base
        s == shape.step
    IN  CASE shape.kind = "flat" -> b
          [] shape.kind = "rising" -> b + s * (k - 1)
          [] shape.kind = "late_rise" -> IF k <= n - 3 THEN b ELSE b + s * (k - (n - 3))
          [] shape.kind = "rise_fall" ->
               IF k <= n - 15 THEN b + 4 * s * (k - 1)
               ELSE b + 4 * s * (n - 16) - s * (k - (n - 15))
          [] shape.kind = "bump" ->
               IF k <= n - Len(BumpPattern) THEN b
               ELSE b + s * BumpPattern[k - (n - Len(BumpPattern))]
          [] shape.kind = "spike" -> IF k = n - 3 THEN b - s ELSE b
          [] shape.kind = "crash" -> IF k = n - 3 THEN 0 ELSE b
          [] shape.kind = "gap" ->
               IF k >= n - 18 /\ k < n - 3 THEN b + s ELSE b

History(shape) == [k \in 1..shape.n |-> [date |-> DateAt(k), Close |-> ShapeClose(shape, k)]]

Shapes(kinds) ==
    [kind : kinds, n : (MIN_HISTORY - 1)..(MIN_HISTORY + ExtraBars), base : {104}, step : {3}]

AllKinds == {"flat", "rising", "late_rise", "rise_fall", "bump", "spike"}

\* A params dict without one of its keys.
Without(p, key) == [k \in DOMAIN p \ {key} |-> p[k]]

\* The runs: the strategy, its parameters and the history.  The indicators are
\* computed exactly, which keeps MACD to histories whose moves are few and
\* Bollinger bands to windows whose variance has a rational root.
RunInputs ==
    [strategy : {"rsi_sma", "ma_crossover"}, params : {get_default_params, SmallParams},
     shape : Shapes(AllKinds)]
      \cup [strategy : {"macd", "bollinger", "foo"}, params : {get_default_params},
            shape : Shapes({"flat"})]
      \cup [strategy : {"macd"}, params : {SmallParams},
            shape : Shapes({"flat", "late_rise", "bump", "spike"})]
      \cup [strategy : {"bollinger"}, params : {SmallParams},
            shape : Shapes({"flat", "spike", "crash"})]
      \cup [strategy : {"rsi_sma"}, params : {get_default_params}, shape : Shapes({"gap"})]
      \cup [strategy : {"rsi_sma"},
            params : {Without(get_default_params, "rsi_oversold"),
                      Without(get_default_params, "rsi_overbought")},
            shape : Shapes({"rising", "rise_fall"})]
      \cup [strategy : {"macd", "ma_crossover"}, params : {Without(SmallParams, "ma_slow")},
            shape : Shapes({"late_rise"})]

InitRun ==
    /\ \E in \in RunInputs :
         /\ strategy = in.strategy
         /\ params = in.params
         /\ raw = History(in.shape)
    /\ initial_capital \in Capitals
    /\ hist = <<>>
    /\ pc = "start"
    /\ i = 0
    /\ capital = initial_capital
    /\ shares = 0
    /\ position_open = FALSE
    /\ entry_price = 0
    /\ trades = <<>>
    /\ equity_curve = <<>>
    /\ summary = None
    /\ response = None
    /\ other = None
    /\ ElsewhereIdle

NextRun ==
    \/ RunNotEnoughHistory
    \/ RunUnknownStrategy
    \/ RunRaise
    \/ RunNotEnoughRows
    \/ RunSimulate
    \/ SimulateTradesBar
    \/ SimulateTradesRaise
    \/ SimulateTradesEnd
    \/ CalculateMetrics
    \/ RunReturn

SpecRun == InitRun /\ [][NextRun]_vars

\* ---------------------------------------------------- two invocations at once
\* The routes are plain functions, served from a pool of threads: two calls of
\* run_backtest can be under way at the same time.  Every variable of
\* run_backtest, simulate_trades and calculate_metrics is a local of one call,
\* so a call's variables go with it when the other call runs.

\* The variables of the invocation that is running.
Frame ==
    [strategy |-> strategy, params |-> params, initial_capital |-> initial_capital,
     raw |-> raw, hist |-> hist, pc |-> pc, i |-> i, capital |-> capital,
     shares |-> shares, position_open |-> position_open, entry_price |-> entry_price,
     trades |-> trades, equity_curve |-> equity_curve, summary |-> summary,
     response |-> response]

\* The variables of an invocation that has not yet taken a step.
StartFrame(in, cap) ==
    [strategy |-> in.strategy, params |-> in.params, initial_capital |-> cap,
     raw |-> History(in.shape), hist |-> <<>>, pc |-> "start", i |-> 0, capital |-> cap,
     shares |-> 0, position_open |-> FALSE, entry_price |-> 0, trades |-> <<>>,
     equity_curve |-> <<>>, summary |-> None, response |-> None]

\* Mutant of Switch: the trade list is one list that both invocations append to.
Switch_SharedTrades ==
    /\ other # None
    /\ other' = Frame
    /\ strategy' = other.strategy
    /\ params' = other.params
    /\ initial_capital' = other.initial_capital
    /\ raw' = other.raw
    /\ hist' = other.hist
    /\ pc' = other.pc
    /\ i' = other.i
    /\ capital' = other.capital
    /\ shares' = other.shares
    /\ position_open' = other.position_open
    /\ entry_price' = other.entry_price
    /\ trades' = trades
    /\ equity_curve' = other.equity_curve
    /\ summary' = other.summary
    /\ response' = other.response
    /\ UNCHANGED elsewhere

\* Mutant of Switch: the cash is one amount that both invocations spend.
Switch_SharedCash ==
    /\ other # None
    /\ other' = Frame
    /\ strategy' = other.strategy
    /\ params' = other.params
    /\ initial_capital' = other.initial_capital
    /\ raw' = other.raw
    /\ hist' = other.hist
    /\ pc' = other.pc
    /\ i' = other.i
    /\ capital' = capital
    /\ shares' = other.shares
    /\ position_open' = other.position_open
    /\ entry_price' = other.entry_price
    /\ trades' = other.trades
    /\ equity_curve' = other.equity_curve
    /\ summary' = other.summary
    /\ response' = other.response
    /\ UNCHANGED elsewhere

\* The scheduler lets the other invocation run: each invocation finds its own
\* variables as it left them.
Switch ==
    /\ other # None
    /\ other' = Frame
    /\ strategy' = other.strategy
    /\ params' = other.params
    /\ initial_capital' = other.initial_capital
    /\ raw' = other.raw
    /\ hist' = other.hist
    /\ pc' = other.pc
    /\ i' = other.i
    /\ capital' = other.capital
    /\ shares' = other.shares
    /\ position_open' = other.position_open
    /\ entry_price' = other.entry_price
    /\ trades' = other.trades
    /\ equity_curve' = other.equity_curve
    /\ summary' = other.summary
    /\ response' = other.response
    /\ UNCHANGED elsewhere

\* The calls that are paired: one of each way a run can go.
PairInputs ==
    {[strategy |-> "ma_crossover", params |-> SmallParams,
      shape |-> [kind |-> "bump", n |-> MIN_HISTORY, base |-> 104, step |-> 3]],
     [strategy |-> "rsi_sma", params |-> get_default_params,
      shape |-> [kind |-> "rise_fall", n |-> MIN_HISTORY, base |-> 104, step |-> 3]],
     [strategy |-> "bollinger", params |-> SmallParams,
      shape |-> [kind |-> "crash", n |-> MIN_HISTORY + 1, base |-> 104, step |-> 3]],
     [strategy |-> "rsi_sma", params |-> get_default_params,
      shape |-> [kind |-> "flat", n |-> MIN_HISTORY, base |-> 104, step |-> 3]],
     [strategy |-> "ma_crossover", params |-> Without(SmallParams, "ma_slow"),
      shape |-> [kind |-> "flat", n |-> MIN_HISTORY, base |-> 104, step |-> 3]],
     [strategy |-> "foo", params |-> get_default_params,
      shape |-> [kind |-> "flat", n |-> MIN_HISTORY, base |-> 104, step |-> 3]],
     [strategy |-> "macd", params |-> get_default_params,
      shape |-> [kind |-> "flat", n |-> MIN_HISTORY - 1, base |-> 104, step |-> 3]]}

\* The capital of both calls.
PairCapital == 3000

InitTwo ==
    /\ \E in \in PairInputs :
         /\ strategy = in.strategy
         /\ params = in.params
         /\ raw = History(in.shape)
    /\ initial_capital = PairCapital
    /\ hist = <<>>
    /\ pc = "start"
    /\ i = 0
    /\ capital = initial_capital
    /\ shares = 0
    /\ position_open = FALSE
    /\ entry_price = 0
    /\ trades = <<>>
    /\ equity_curve = <<>>
    /\ summary = None
    /\ response = None
    /\ other \in {StartFrame(in, PairCapital) : in \in PairInputs}
    /\ ElsewhereIdle

NextTwo ==
    \/ RunNotEnoughHistory
    \/ RunUnknownStrategy
    \/ RunRaise
    \/ RunNotEnoughRows
    \/ RunSimulate
    \/ SimulateTradesBar
    \/ SimulateTradesRaise
    \/ SimulateTradesEnd
    \/ CalculateMetrics
    \/ RunReturn
    \/ Switch

SpecTwo == InitTwo /\ [][NextTwo]_vars

\* ------------------------------------------------------------------- claims

Last(s) == s[Len(s)]

\* The order of two formatted dates, as strings.
DateStrLt(a, b) ==
    \/ a[1] < b[1]
    \/ a[1] = b[1] /\ a[2] < b[2]
    \/ a[1] = b[1] /\ a[2] = b[2] /\ a[3] < b[3]

CountType(ts, types) == Cardinality({k \in 1..Len(ts) : ts[k].type \in types})

SellTypes == {"SELL", "SELL (End)"}

Finished == pc \in {"metrics", "return"}

\* A step of the bar loop, and the signals of the bar it processes.
BarStep == pc = "loop" /\ i' = i + 1

BarSignals == generate_signals(hist[i + 1], hist, i, strategy, params)

BarClose == hist[i + 1].Close

\* The step that ends simulate_trades.
EndStep == pc = "loop" /\ pc' = "metrics"

\* C1: once simulate_trades has finished, the trade list alternates BUY,
\* sell-type, BUY, sell-type ... starting with a BUY, it holds as many BUYs as
\* SELL plus 'SELL (End)' trades, and totalTrades (the number of sell-type
\* trades) is the number of BUYs.
C1_BuysMatchSells ==
    Finished =>
      /\ \A k \in 1..Len(trades) :
           IF k % 2 = 1 THEN trades[k].type = "BUY" ELSE trades[k].type \in SellTypes
      /\ CountType(trades, {"BUY"}) = CountType(trades, SellTypes)
      /\ pc = "return" => summary.totalTrades = CountType(trades, {"BUY"})

C1_Witness ==
    /\ pc = "return"
    /\ Len(trades) >= 4
    /\ trades[2].type = "SELL"
    /\ Last(trades).type = "SELL (End)"

\* C2: the cash balance is never negative: before and after every BUY, every
\* SELL and the liquidation at the end.
C2_CashNonNegative == capital >= 0

C2_Witness ==
    /\ Finished
    /\ Len(trades) >= 4
    /\ Last(trades).type = "SELL (End)"
    /\ capital # initial_capital

\* C3 as stated: position_open holds exactly when shares > 0 and exactly when
\* entry_price > 0; a BUY is appended only from FLAT and a SELL only from
\* LONG; and a bar with a sell signal while FLAT, or with a buy signal while
\* LONG, appends no trade and leaves cash, shares, entry_price and the trade
\* list unchanged.
C3_Position ==
    pc = "loop" => /\ position_open <=> shares > 0
                   /\ position_open <=> entry_price > 0

C3_TradesFromState ==
    BarStep /\ trades' # trades =>
      /\ Last(trades').type = "BUY" => ~position_open /\ position_open'
      /\ Last(trades').type = "SELL" => position_open /\ ~position_open'

LastRow == hist[Len(hist)]

\* C4: when simulate_trades ends LONG, exactly one 'SELL (End)' trade is
\* appended, as the final trade: executed at the last bar's close (recorded
\* to 2 decimals), dated as the last bar, for all the shares held, with a zero
\* profit when the position was opened on the last bar itself.  When it ends
\* FLAT nothing is appended.  No 'SELL (End)' trade exists before the end.
C4_EndStep ==
    EndStep =>
      IF position_open
      THEN /\ Len(trades') = Len(trades) + 1
           /\ SubSeq(trades', 1, Len(trades)) = trades
           /\ Last(trades').type = "SELL (End)"
           /\ Last(trades').price = Round2(LastRow.Close)
           /\ Last(trades').date = Strftime(LastRow.date)
           /\ Last(trades').shares = shares
           /\ Last(trades).type = "BUY" /\ Last(trades).shares = shares
           /\ capital' = capital + shares * LastRow.Close
           /\ Last(trades).date = Strftime(LastRow.date)
                => Last(trades').profit = 0 /\ Last(trades').profitPct = 0
      ELSE trades' = trades /\ capital' = capital

C4_OnlyAtEnd ==
    /\ pc = "loop" => CountType(trades, {"SELL (End)"}) = 0
    /\ Finished => /\ CountType(trades, {"SELL (End)"}) <= 1
                   /\ CountType(trades, {"SELL (End)"}) = 1
                        => Last(trades).type = "SELL (End)"

C4_ForcedClose == []C4_OnlyAtEnd /\ [][C4_EndStep]_vars

\* The position was opened on the last bar and closed by the forced trade.
C4_Witness ==
    /\ pc = "metrics"
    /\ Len(trades) >= 2
    /\ Last(trades).type = "SELL (End)"
    /\ trades[Len(trades) - 1].type = "BUY"
    /\ trades[Len(trades) - 1].date = Last(trades).date
    /\ Last(trades).profit = 0

\* C5: the finalCapital calculate_metrics reports is the equity of the last
\* point of the equity curve, and it is the cash held after the liquidation at
\* the end, to the 2 decimals the curve keeps, although that point was
\* recorded before the last bar's trade and before the forced close.
C5_FinalCapitalIsCash ==
    pc = "return" =>
      /\ summary.finalCapital = Last(equity_curve).equity
      /\ summary.finalCapital = Round2(capital)

\* A run whose last bar opened a position that the end of the run closed,
\* after an earlier round trip changed the cash.
C5_Witness ==
    /\ pc = "return"
    /\ Len(trades) >= 4
    /\ Last(trades).type = "SELL (End)"
    /\ trades[Len(trades) - 1].date = Last(trades).date
    /\ summary.finalCapital # initial_capital

\* C6: every bar appends one equity point, in the order of the bars, holding
\* cash + shares * close as they are before the bar's trade (to 2 decimals);
\* the finished curve is as long as the frame, and its dates ascend strictly.
C6_Curve ==
    /\ Len(equity_curve) = i
    /\ Finished => Len(equity_curve) = Len(hist)
    /\ \A k \in 1..Len(equity_curve) : equity_curve[k].date = Strftime(hist[k].date)
    /\ \A k \in 1..(Len(equity_curve) - 1) :
         DateStrLt(equity_curve[k].date, equity_curve[k + 1].date)

C6_PointBeforeTrade ==
    BarStep =>
      /\ Len(equity_curve') = Len(equity_curve) + 1
      /\ SubSeq(equity_curve', 1, Len(equity_curve)) = equity_curve
      /\ Last(equity_curve').equity = Round2(capital + shares * BarClose)

C6_OnePointPerBar == []C6_Curve /\ [][C6_PointBeforeTrade]_vars

\* A finished curve of the longest frame, over the turn of the year, with a
\* point taken while shares were held.
C6_Witness ==
    /\ Finished
    /\ Len(equity_curve) = MaxBars
    /\ equity_curve[1].date[1] < Last(equity_curve).date[1]
    /\ Len(trades) >= 2
    /\ trades[1].date # trades[2].date

\* C7: on a bar with a buy signal while FLAT, shareCount is the floor of
\* cash * 0.95 / close; when it is positive, cash drops by exactly
\* shareCount * close, entry_price is the close, the simulator is LONG and one
\* BUY of shareCount shares is appended; when it is 0 no trade is appended,
\* the simulator stays FLAT and cash is unchanged.
C7_BuyStep ==
    BarStep /\ ~position_open /\ BarSignals.buy =>
      \E n \in 0..capital :
        /\ 100 * n * BarClose <= 95 * capital
        /\ 95 * capital < 100 * (n + 1) * BarClose
        /\ IF n > 0
           THEN /\ capital' = capital - n * BarClose
                /\ entry_price' = BarClose
                /\ position_open'
                /\ shares' = n
                /\ Len(trades') = Len(trades) + 1
                /\ SubSeq(trades', 1, Len(trades)) = trades
                /\ Last(trades').type = "BUY"
                /\ Last(trades').shares = n
           ELSE /\ trades' = trades
                /\ ~position_open'
                /\ capital' = capital
                /\ shares' = 0

C7_Buy == [][C7_BuyStep]_vars

\* A BUY that spent part of the cash of a run that had traded before.
C7_Witness ==
    /\ pc = "loop"
    /\ position_open
    /\ Len(trades) = 3
    /\ Last(trades).type = "BUY"
    /\ capital + shares * entry_price # initial_capital
    /\ capital > 0

\* C8: on a bar with a sell signal while LONG, cash grows by shares * close
\* and one SELL is appended, with the share count bought at entry, with
\* profit (close - entry_price) * shares and profitPct
\* (close - entry_price) / entry_price * 100 (both as recorded, to 2
\* decimals); then the simulator is FLAT, with shares = 0 and entry_price = 0.
C8_SellStep ==
    BarStep /\ position_open /\ BarSignals.sell =>
      /\ capital' = capital + shares * BarClose
      /\ Len(trades') = Len(trades) + 1
      /\ SubSeq(trades', 1, Len(trades)) = trades
      /\ LET t == Last(trades') IN
           /\ t.type = "SELL"
           /\ t.shares = shares
           /\ t.shares = Last(trades).shares /\ Last(trades).type = "BUY"
           /\ t.profit % 10 = 0
           /\ 2 * Abs(t.profit - (BarClose - entry_price) * shares) <= 10
           /\ 2 * Abs(t.profitPct * entry_price - (BarClose - entry_price) * 10000)
                <= entry_price
      /\ ~position_open'
      /\ shares' = 0
      /\ entry_price' = 0

C8_Sell == [][C8_SellStep]_vars

\* A SELL at a profit whose percentage is not a whole number of hundredths.
C8_Witness ==
    /\ pc = "loop"
    /\ ~position_open
    /\ trades # <<>>
    /\ Last(trades).type = "SELL"
    /\ Last(trades).date = Strftime(hist[i].date)
    /\ Last(trades).profit > 0
    /\ \E k \in 1..i : (hist[i].Close - hist[k].Close) * 10000 % hist[k].Close # 0

\* The closes of the fetched history rise on every bar / never change.
Rising == \A k \in 1..(Len(raw) - 1) : raw[k].Close < raw[k + 1].Close

Flat == \A k \in 1..Len(raw) : raw[k].Close = raw[1].Close

\* C9 (Scenario A): run_backtest on a rising history of at least 60 bars
\* under ma_crossover with ma_fast = 2 and ma_slow = 4 returns a success whose
\* trades are exactly one BUY followed by one 'SELL (End)' on the last bar,
\* with totalReturn > 0.
C9_ScenarioA ==
    /\ pc = "done"
    /\ Len(raw) >= MIN_HISTORY
    /\ Rising
    /\ strategy = "ma_crossover"
    /\ params.ma_fast = 2
    /\ params.ma_slow = 4
    => /\ response.success
       /\ Len(trades) = 2
       /\ trades[1].type = "BUY"
       /\ trades[2].type = "SELL (End)"
       /\ trades[2].date = Strftime(raw[Len(raw)].date)
       /\ response.summary.totalReturn > 0

\* C10 (Scenario B): run_backtest on a constant history of at least 60 bars
\* under any of the four strategies returns a success with no trade,
\* maxDrawdown = 0 and totalReturn = 0.
C10_ScenarioB ==
    /\ pc = "done"
    /\ Len(raw) >= MIN_HISTORY
    /\ Flat
    /\ strategy \in Strategies
    => /\ response.success
       /\ trades = <<>>
       /\ response.trades = <<>>
       /\ response.summary.totalTrades = 0
       /\ response.summary.maxDrawdown = 0
       /\ response.summary.totalReturn = 0

\* The two insufficient-data failures.
InsufficientData ==
    {[success |-> FALSE, error |-> "Not enough historical data (need 60+ days)"],
     [success |-> FALSE, error |-> "Not enough data after indicator calculation"]}

\* The rows that are left of the fetched history once the indicator columns
\* are attached and the rows with an undefined value removed.
Trimmed == DropNa(AddIndicators(raw, strategy, params))

\* Nothing of simulate_trades or calculate_metrics has run.
NothingComputed ==
    /\ hist = <<>>
    /\ i = 0
    /\ trades = <<>>
    /\ equity_curve = <<>>
    /\ summary = None

\* C11: for a recognized strategy, a history of fewer than 60 bars, or one of
\* which fewer than 10 rows remain after trimming, ends the run at its first
\* step with an insufficient-data failure, and neither simulate_trades nor
\* calculate_metrics has run.
\* (Stated in two halves, so that the trimming is recomputed only where a run
\* starts or has ended: the frame simulate_trades is entered with is the
\* trimmed one and comes from a history of at least 60 bars and has at least
\* 10 rows; a run that ended without a frame on a history that is too short
\* or trims to too little holds the failure.)
C11_FailsFast ==
    strategy \in Strategies /\ pc # "start"
    => /\ hist # <<>>
          => /\ Len(raw) >= MIN_HISTORY
             /\ Len(hist) >= MIN_TRIMMED
             /\ pc = "loop" /\ i = 0 => hist = Trimmed
       /\ hist = <<>>
          => /\ pc = "done"
             /\ \/ Len(raw) < MIN_HISTORY
                \/ /\ \A k \in DOMAIN get_default_params : k \in DOMAIN params
                   /\ Len(Trimmed) < MIN_TRIMMED
                => /\ response \in InsufficientData
                   /\ Len(raw) < MIN_HISTORY
                        <=> response.error = "Not enough historical data (need 60+ days)"
                   /\ NothingComputed

C11_Witness ==
    /\ pc = "done"
    /\ strategy = "rsi_sma"
    /\ DOMAIN params = DOMAIN get_default_params
    /\ Len(raw) >= MIN_HISTORY
    /\ Len(Trimmed) \in 1..(MIN_TRIMMED - 1)
    /\ response.error = "Not enough data after indicator calculation"

\* C12 (as stated): whatever the length of the history, a run with a strategy
\* id outside the four returns the unknown-strategy failure.
C12_AsStated ==
    pc = "done" /\ strategy \notin Strategies
    => response = [success |-> FALSE, error |-> "Unknown strategy: " \o strategy]

\* C12 (amended): a run with a strategy id outside the four ends at its first
\* step with nothing computed; on a history of at least 60 bars it returns the
\* unknown-strategy failure, on a shorter one the not-enough-history failure.
C12_UnknownStrategy ==
    pc # "start" /\ strategy \notin Strategies
    => /\ pc = "done"
       /\ NothingComputed
       /\ response =
            IF Len(raw) >= MIN_HISTORY
            THEN [success |-> FALSE, error |-> "Unknown strategy: " \o strategy]
            ELSE [success |-> FALSE, error |-> "Not enough historical data (need 60+ days)"]

C12_Witness ==
    /\ pc = "done"
    /\ Len(raw) >= MIN_HISTORY
    /\ response = [success |-> FALSE, error |-> "Unknown strategy: foo"]

\* The strategy's branch of run_backtest is about to read a key params lacks.
RaisesAtStart ==
    /\ pc = "start"
    /\ Len(raw) >= MIN_HISTORY
    /\ \/ strategy = "macd"
          /\ {"macd_fast", "macd_slow", "macd_signal"} \ DOMAIN params # {}
       \/ strategy = "bollinger" /\ {"bb_period", "bb_std"} \ DOMAIN params # {}
       \/ strategy = "ma_crossover" /\ {"ma_fast", "ma_slow"} \ DOMAIN params # {}

\* The next iteration of the loop is about to raise: rsi_sma reads a key that
\* params lacks, or a BUY is taken at a close of 0.
RaisesInBar ==
    /\ pc = "loop"
    /\ i < Len(hist)
    /\ LET row == hist[i + 1] IN
       IF strategy = "rsi_sma" /\ {"rsi_oversold", "rsi_overbought"} \ DOMAIN params # {}
       THEN \/ "rsi_overbought" \notin DOMAIN params
            \/ RGt(R(row.Close), row.SMA50)
       ELSE /\ row.Close = 0
            /\ ~position_open
            /\ generate_signals(row, hist, i, strategy, params).buy

C13_FailureShape ==
    /\ pc = "done" <=> response # None
    /\ pc = "done" /\ ~response.success
       => DOMAIN response = {"success", "error"} /\ summary = None

C13_Raise ==
    RaisesAtStart \/ RaisesInBar
    => /\ pc' = "done"
       /\ DOMAIN response' = {"success", "error"}
       /\ ~response'.success
       /\ response'.error \notin {"Not enough historical data (need 60+ days)",
                                  "Not enough data after indicator calculation"}

\* C13: a finished run that failed holds a response of exactly success = false
\* and an error text, with no summary, trades or equity curve; and a step that
\* raises (a missing parameter key, a BUY at a close of 0) ends the run with
\* such a response, whose text is the exception's.
C13_WholeRequestFailure == [][C13_FailureShape' /\ C13_Raise]_vars

C13_Witness ==
    /\ pc = "done"
    /\ trades # <<>>
    /\ \E k \in 1..Len(hist) : hist[k].Close = 0
    /\ response = [success |-> FALSE, error |-> "cannot convert float infinity to integer"]

\* C14: the frame simulate_trades works on is a contiguous suffix of the
\* fetched history: its k-th row from the end is the history's k-th bar from
\* the end.
C14_ContiguousSuffix ==
    \A k \in 1..Len(hist) : hist[k].date = raw[Len(raw) - Len(hist) + k].date

\* a < b and a <= b for two defined values n/d, d > 0, and for a value and an
\* integer, by cross-multiplication.
Below(a, b) == a[1] * b[2] < b[1] * a[2]

AtMost(a, b) == a[1] * b[2] <= b[1] * a[2]

BelowInt(a, n) == a[1] < n * a[2]

AboveInt(a, n) == a[1] > n * a[2]

\* The buy and sell columns of the strategy table for the bar the loop is at;
\* prev is the row before it in the frame.
TableBuy ==
    LET row == hist[i + 1]
        prev == hist[i]
    IN  CASE strategy = "rsi_sma" ->
               BelowInt(row.SMA50, row.Close) /\ BelowInt(row.RSI, params.rsi_oversold)
          [] strategy = "macd" ->
               i > 0 /\ BelowInt(prev.MACD_Hist, 0) /\ AboveInt(row.MACD_Hist, 0)
          [] strategy = "bollinger" -> ~BelowInt(row.BB_Lower, row.Close)
          [] strategy = "ma_crossover" ->
               i > 0 /\ AtMost(prev.MA_Fast, prev.MA_Slow) /\ Below(row.MA_Slow, row.MA_Fast)

TableSell ==
    LET row == hist[i + 1]
        prev == hist[i]
    IN  CASE strategy = "rsi_sma" ->
               AboveInt(row.RSI, params.rsi_overbought) \/ AboveInt(row.SMA50, row.Close)
          [] strategy = "macd" ->
               i > 0 /\ AboveInt(prev.MACD_Hist, 0) /\ BelowInt(row.MACD_Hist, 0)
          [] strategy = "bollinger" ->
               ~AboveInt(row.BB_Upper, row.Close) \/ AboveInt(row.BB_Mid, row.Close)
          [] strategy = "ma_crossover" ->
               i > 0 /\ AtMost(prev.MA_Slow, prev.MA_Fast) /\ Below(row.MA_Fast, row.MA_Slow)

\* C15: on every bar of the frame, for each of the four strategies, the buy
\* and sell booleans generate_signals returns are those of the strategy table
\* (strict and inclusive comparisons as the table has them; no signal from a
\* crossover on the first bar, which has no bar before it).
C15_SignalTable ==
    pc = "loop" /\ i < Len(hist) /\ strategy \in Strategies
      /\ DOMAIN params = DOMAIN get_default_params
    => LET sig == generate_signals(hist[i + 1], hist, i, strategy, params)
       IN  sig.buy = TableBuy /\ sig.sell = TableSell

\* A crossover bar whose averages were level on the bar before.
C15_Witness ==
    /\ pc = "loop"
    /\ i > 0
    /\ i < Len(hist)
    /\ strategy = "ma_crossover"
    /\ hist[i].MA_Fast = hist[i].MA_Slow
    /\ generate_signals(hist[i + 1], hist, i, strategy, params).buy
    /\ TableBuy

\* The k-th equity value of the curve, and the highest of the first k.
Eq(k) == equity_curve[k].equity

PeakAt(k) == CHOOSE p \in {Eq(j) : j \in 1..k} : \A j \in 1..k : Eq(j) <= p

\* A point of the curve whose fall from the running peak, as a share of the
\* peak, is the largest.
DeepestPoint ==
    CHOOSE k \in 1..Len(equity_curve) :
      \A j \in 1..Len(equity_curve) :
        (PeakAt(j) - Eq(j)) * PeakAt(k) <= (PeakAt(k) - Eq(k)) * PeakAt(j)

NonDecreasing == \A k \in 1..(Len(equity_curve) - 1) : Eq(k) <= Eq(k + 1)

\* C16: in the summary of a run with positive capital and closes, maxDrawdown
\* (in hundredths of a percent here) lies in 0..10000 and winRate (in tenths)
\* in 0..1000; maxDrawdown is, to its 2 decimals, the largest over the curve
\* of (running peak - equity) / running peak * 100, and 0 when the curve never
\* falls.
C16_DrawdownAndWinRate ==
    pc = "return"
    => /\ summary.maxDrawdown \in 0..10000
       /\ summary.winRate \in 0..1000
       /\ LET k == DeepestPoint
          IN  2 * Abs(summary.maxDrawdown * PeakAt(k) - 10000 * (PeakAt(k) - Eq(k)))
                <= PeakAt(k)
       /\ NonDecreasing => summary.maxDrawdown = 0

C16_Witness ==
    /\ pc = "return"
    /\ summary.maxDrawdown > 0
    /\ summary.totalTrades > 0
    /\ Eq(DeepestPoint) < PeakAt(DeepestPoint)
    /\ ~NonDecreasing

\* The positions in trades of the sell-type records.
SellAt == {k \in 1..Len(trades) : trades[k].type \in {"SELL", "SELL (End)"}}

WonAt == {k \in SellAt : trades[k].profit > 0}

LostAt == {k \in SellAt : trades[k].profit <= 0}

RECURSIVE ProfitOver(_)
ProfitOver(ks) ==
    IF ks = {} THEN 0
    ELSE LET k == CHOOSE x \in ks : TRUE IN trades[k].profit + ProfitOver(ks \ {k})

\* m is the mean profit over the positions ks to 2 decimals (0 for none).
IsMeanProfit(m, ks) ==
    IF ks = {} THEN m = 0
    ELSE 2 * Abs(m * Cardinality(ks) - ProfitOver(ks)) <= 10 * Cardinality(ks)

\* C17: the summary counts sell-type trades only: totalTrades is their number,
\* winningTrades those with profit > 0, losingTrades those with profit <= 0,
\* and the two add up to totalTrades; winRate is winningTrades / totalTrades *
\* 100 to 1 decimal, and 0 without a sell-type trade; avgWin and avgLoss are
\* the mean profit of their trades to 2 decimals, and 0 without one.
C17_TradeStatistics ==
    pc = "return"
    => /\ summary.totalTrades = Cardinality(SellAt)
       /\ summary.winningTrades = Cardinality(WonAt)
       /\ summary.losingTrades = Cardinality(LostAt)
       /\ summary.winningTrades + summary.losingTrades = summary.totalTrades
       /\ IF SellAt = {} THEN summary.winRate = 0
          ELSE 2 * Abs(summary.winRate * Cardinality(SellAt) - 1000 * Cardinality(WonAt))
                 <= Cardinality(SellAt)
       /\ IsMeanProfit(summary.avgWin, WonAt)
       /\ IsMeanProfit(summary.avgLoss, LostAt)

C17_Witness ==
    /\ pc = "return"
    /\ Cardinality(WonAt) = 1
    /\ Cardinality(LostAt) = 1
    /\ \E k \in LostAt : trades[k].profit = 0
    /\ Cardinality(SellAt) < Len(trades)
    /\ summary.winRate = 500

\* ---- run_backtest as a function of its arguments
\* The locals of simulate_trades after one more row; error holds what the row
\* raised.
SimBar(h, strat, p, st) ==
    LET row == h[st.i + 1]
        err == BarError(row, h, st.i, strat, p, st.position_open, st.capital)
        sig == generate_signals(row, h, st.i, strat, p)
        n == BuyShares(st.capital, row.Close)
        curve == Append(st.equity_curve, EquityPoint(row, st.capital, st.shares))
    IN  IF err # NoError THEN [st EXCEPT !.error = err, !.equity_curve = curve]
        ELSE IF TakesBuy(st.position_open, sig)
        THEN IF n > 0
             THEN [st EXCEPT !.i = @ + 1, !.equity_curve = curve, !.shares = n,
                             !.entry_price = row.Close, !.capital = @ - n * row.Close,
                             !.position_open = TRUE,
                             !.trades = Append(@, BuyTrade(row, n, sig.info))]
             ELSE [st EXCEPT !.i = @ + 1, !.equity_curve = curve, !.shares = n]
        ELSE IF TakesSell(st.position_open, sig)
        THEN [st EXCEPT !.i = @ + 1, !.equity_curve = curve, !.shares = 0,
                        !.entry_price = 0, !.capital = @ + st.shares * row.Close,
                        !.position_open = FALSE,
                        !.trades = Append(@, SellTrade(row, st.shares, st.entry_price,
                                                       sig.info))]
        ELSE [st EXCEPT !.i = @ + 1, !.equity_curve = curve]

\* The locals once the loop has ended or a row has raised.
RECURSIVE SimLoop(_, _, _, _)
SimLoop(h, strat, p, st) ==
    IF st.error # NoError \/ st.i = Len(h) THEN st
    ELSE LET next == SimBar(h, strat, p, st)
         IN  IF next.i >= st.i THEN SimLoop(h, strat, p, next) ELSE next

\* What run_backtest returns for a strategy id, a params dict, a capital and a
\* fetched history.
RunAlone(strat, p, cap, bars) ==
    IF Len(bars) < MIN_HISTORY THEN Failure("Not enough historical data (need 60+ days)")
    ELSE IF strat \notin Strategies THEN Failure("Unknown strategy: " \o strat)
    ELSE IF MissingKeys(IndicatorKeys(strat), p) # <<>>
    THEN Failure(KeyErrorText(MissingKeys(IndicatorKeys(strat), p)[1]))
    ELSE LET h == DropNa(AddIndicators(bars, strat, p)) IN
    IF Len(h) < MIN_TRIMMED THEN Failure("Not enough data after indicator calculation")
    ELSE LET st == SimLoop(h, strat, p,
                           [i |-> 0, capital |-> cap, shares |-> 0, position_open |-> FALSE,
                            entry_price |-> 0, trades |-> <<>>, equity_curve |-> <<>>,
                            error |-> NoError])
             ts == IF st.position_open
                   THEN Append(st.trades, EndTrade(h, st.shares, st.entry_price))
                   ELSE st.trades
         IN  IF st.error # NoError THEN Failure(st.error)
             ELSE [success |-> TRUE,
                   strategy |-> strat,
                   strategyName |-> StrategyName(strat, p),
                   summary |-> calculate_metrics(ts, st.equity_curve, cap, h),
                   trades |-> LastN(ts, TRADES_KEPT),
                   equityCurve |-> EveryNth(st.equity_curve,
                                            Max(1, Len(st.equity_curve) \div CURVE_POINTS))]

\* Both invocations have returned.
BothDone == other # None /\ pc = "done" /\ other.pc = "done"

SameArguments ==
    /\ strategy = other.strategy
    /\ params = other.params
    /\ initial_capital = other.initial_capital
    /\ raw = other.raw

C19_Isolation ==
    BothDone
    => /\ response = RunAlone(strategy, params, initial_capital, raw)
       /\ other.response = RunAlone(other.strategy, other.params, other.initial_capital,
                                    other.raw)

C19_Witness ==
    /\ BothDone
    /\ strategy # other.strategy
    /\ response.success
    /\ other.response.success
    /\ trades # <<>>
    /\ other.trades # <<>>
    /\ trades # other.trades

\* The closes of the fetched history, as calculate_rsi receives them.
Closes == [k \in 1..Len(raw) |-> R(raw[k].Close)]

\* No close of the window of bar k (the RSI_PERIOD changes up to bar k) is
\* lower than the close before it: the average loss of the window is 0.
NoLossWindow(k) ==
    \A j \in (k - RSI_PERIOD + 1)..k : j > 1 => raw[j].Close >= raw[j - 1].Close

\* C20: on every bar with a full window whose average loss is 0, whether or
\* not the window holds a gain, calculate_rsi gives 100.
C20_ZeroLossIs100 ==
    pc = "start" /\ strategy = "rsi_sma"
    => \A k \in RSI_PERIOD..Len(raw) :
         NoLossWindow(k) => calculate_rsi(Closes, RSI_PERIOD)[k] = R(100)

\* C21: calculate_rsi gives no value on the first RSI_PERIOD bars (pandas
\* indices 0 .. period - 1): the first value comes with bar period + 1.
C21_NoRsiBeforeWarmUp ==
    pc = "start" /\ strategy = "rsi_sma"
    => \A k \in 1..RSI_PERIOD : k <= Len(raw) => IsNaN(calculate_rsi(Closes, RSI_PERIOD)[k])

\* C22: the equityCurve of a success is the curve's points 0, s, 2s, ... with
\* s = max(1, floor(len / 50)), and has at most 50 points.
C22_CurveSample ==
    pc = "done" /\ response.success
    => LET len == Len(equity_curve)
           s == IF len \div 50 >= 1 THEN len \div 50 ELSE 1
           sample == response.equityCurve
       IN  /\ \A k \in 1..Len(sample) : sample[k] = equity_curve[(k - 1) * s + 1]
           /\ (Len(sample) - 1) * s + 1 <= len
           /\ Len(sample) * s + 1 > len
           /\ Len(sample) <= 50

\* The strategies that compare a bar with the bar before it.
CrossoverStrategies == {"macd", "ma_crossover"}

C25_FirstBarSilent ==
    strategy \in CrossoverStrategies
    => /\ pc = "loop" /\ i = 0 /\ Len(hist) > 0 => ~BarSignals.buy /\ ~BarSignals.sell
       /\ pc = "loop" /\ i \in 1..(Len(hist) - 1)
          => BarSignals.buy = TableBuy /\ BarSignals.sell = TableSell
       /\ i <= 1 => trades = <<>>
       /\ trades # <<>> => Len(hist) >= 2 /\ trades[1].date # Strftime(hist[1].date)

C25_FirstBarStep ==
    BarStep /\ i = 0 /\ strategy \in CrossoverStrategies
    => UNCHANGED <<capital, shares, position_open, entry_price, trades>>

\* C25: under macd and ma_crossover the first bar of the frame gives neither a
\* buy nor a sell signal and no trade; a trade needs a frame of at least 2
\* bars; from the second bar on the signals compare the bar with the bar just
\* before it in the frame.
C25_CrossoverNeedsTwoBars == []C25_FirstBarSilent /\ [][C25_FirstBarStep]_vars

\* The first bar has been processed without a trade, in a frame whose first
\* bar has the fast value above the slow one and whose last bar has it below.
C25_Witness ==
    /\ strategy = "ma_crossover"
    /\ pc = "loop"
    /\ i = 1
    /\ Len(hist) >= 2
    /\ trades = <<>>
    /\ RLt(hist[Len(hist)].MA_Fast, hist[Len(hist)].MA_Slow)
    /\ RGt(hist[1].MA_Fast, hist[1].MA_Slow)

\* Both signals are true on the bar about to be processed.
BothSignals == BarSignals.buy /\ BarSignals.sell

C26_BarStep ==
    BarStep
    => /\ Len(trades') <= Len(trades) + 1
       /\ BothSignals /\ ~position_open
          => /\ \/ trades' = trades /\ ~position_open' /\ BuyShares(capital, BarClose) = 0
                \/ /\ Len(trades') = Len(trades) + 1
                   /\ Last(trades').type = "BUY"
                   /\ position_open'
       /\ BothSignals /\ position_open
          => /\ Len(trades') = Len(trades) + 1
             /\ Last(trades').type = "SELL"
             /\ ~position_open'
       /\ ~position_open /\ ~position_open' => trades' = trades

\* Two trades of one bar are the last bar's BUY and the forced close.
C26_SameBarTrades ==
    \A k \in 1..(Len(trades) - 1) :
        trades[k].date = trades[k + 1].date
        => /\ k + 1 = Len(trades)
           /\ trades[k].type = "BUY"
           /\ trades[k + 1].type = "SELL (End)"
           /\ trades[k].date = Strftime(LastRow.date)

\* C26: one iteration of the bar loop executes at most one trade; with both
\* signals true a flat simulator only buys and a long one only sells; two
\* trades on one bar are a BUY on the last bar followed by SELL (End).
C26_OneTradePerBar == []C26_SameBarTrades /\ [][C26_BarStep]_vars

\* A flat simulator has just bought on a bollinger bar whose close is at the
\* lower band and below the middle band.
C26_Witness ==
    /\ strategy = "bollinger"
    /\ pc = "loop"
    /\ i \in 1..(Len(hist) - 1)
    /\ position_open
    /\ Last(trades).type = "BUY"
    /\ Last(trades).date = Strftime(hist[i].date)
    /\ generate_signals(hist[i], hist, i - 1, strategy, params).buy
    /\ generate_signals(hist[i], hist, i - 1, strategy, params).sell

\* The shares bought and not yet sold, by the trade list.
RECURSIVE SharesHeld(_)
SharesHeld(ts) ==
    IF ts = <<>> THEN 0
    ELSE LET t == Last(ts)
             rest == SharesHeld(SubSeq(ts, 1, Len(ts) - 1))
         IN  IF t.type = "BUY" THEN rest + t.shares ELSE rest - t.shares

\* The close of the bar a trade was executed on.
ExecutionPrice(t) == hist[CHOOSE k \in 1..Len(hist) : Strftime(hist[k].date) = t.date].Close

\* The sum of (exit price - entry price) * shares over the sell-type trades,
\* each with the BUY just before it.
RECURSIVE RealisedGains(_)
RealisedGains(ts) ==
    IF Len(ts) < 2 THEN 0
    ELSE LET t == Last(ts)
             rest == RealisedGains(SubSeq(ts, 1, Len(ts) - 1))
         IN  IF t.type \in SellTypes
             THEN rest + (ExecutionPrice(t) - ExecutionPrice(ts[Len(ts) - 1])) * t.shares
             ELSE rest

C27_Neutral ==
    /\ BarStep => capital' + SharesHeld(trades') * BarClose
                  = capital + SharesHeld(trades) * BarClose
    /\ EndStep => capital' + SharesHeld(trades') * LastRow.Close
                  = capital + SharesHeld(trades) * LastRow.Close

C27_Cash ==
    /\ pc = "loop" => SharesHeld(trades) = shares
    /\ Finished => /\ SharesHeld(trades) = 0
                   /\ capital = initial_capital + RealisedGains(trades)

\* C27: a BUY, a SELL and the forced close leave cash + shares held * close of
\* the bar unchanged, and the cash after the end-of-run liquidation is
\* initial_capital plus the sum of (exit price - entry price) * shares over the
\* sell-type trades.
C27_EquityNeutral == []C27_Cash /\ [][C27_Neutral]_vars

\* A run that sold on a signal, bought again and was closed at the end, with
\* a cash different from the initial capital.
C27_Witness ==
    /\ pc = "metrics"
    /\ Len(trades) = 4
    /\ trades[2].type = "SELL"
    /\ Last(trades).type = "SELL (End)"
    /\ capital # initial_capital

\* A trade list that starts with a BUY, alternates BUY and sell-type trades
\* and holds as many of the one as of the other.
Balanced(ts) ==
    /\ \A k \in 1..Len(ts) : IF k % 2 = 1 THEN ts[k].type = "BUY" ELSE ts[k].type \in SellTypes
    /\ CountType(ts, {"BUY"}) = CountType(ts, SellTypes)

\* C28: the trades of a success are the last 20 entries of the full trade
\* list, in its order; they are balanced (as the full list is); and
\* totalTrades counts the sell-type trades of the full list.
C28_LastTwenty ==
    pc = "done" /\ response.success
    => LET kept == response.trades
           skipped == Len(trades) - Len(kept)
       IN  /\ Len(kept) = (IF Len(trades) > 20 THEN 20 ELSE Len(trades))
           /\ \A k \in 1..Len(kept) : kept[k] = trades[skipped + k]
           /\ Balanced(trades)
           /\ Balanced(kept)
           /\ response.summary.totalTrades = CountType(trades, SellTypes)

\* A success whose full trade list is longer than what is returned.
C28_Witness ==
    /\ pc = "done"
    /\ response.success
    /\ Len(trades) > 20
    /\ Len(response.trades) = 20
    /\ response.trades[1] = trades[Len(trades) - 19]
    /\ response.summary.totalTrades > 10

\* ------------------------------------------------------ utils/formatters.py
\* A string is the sequence of its characters.

\* The default suffix, ".NS".
DEFAULT_SUFFIX == <<".", "N", "S">>

IsSpace(c) == c = " "

RECURSIVE LStrip(_)
LStrip(s) == IF s # <<>> /\ IsSpace(Head(s)) THEN LStrip(Tail(s)) ELSE s

RECURSIVE RStrip(_)
RStrip(s) == IF s # <<>> /\ IsSpace(s[Len(s)]) THEN RStrip(SubSeq(s, 1, Len(s) - 1)) ELSE s

\* str.strip()
Strip(s) == RStrip(LStrip(s))

\* str.endswith(suffix)
EndsWith(s, suffix) ==
    Len(s) >= Len(suffix) /\ SubSeq(s, Len(s) - Len(suffix) + 1, Len(s)) = suffix

\* s[:-n]; s[:-0] is s[:0], the empty string.
DropLast(s, n) == IF n = 0 THEN <<>> ELSE SubSeq(s, 1, Len(s) - n)

\* Mutant of ensure_suffix: the symbol is used as it came, not stripped.
ensure_suffix_NoStrip(sym, suffix) ==
    IF sym = <<>> THEN sym
    ELSE IF ~EndsWith(sym, suffix) THEN sym \o suffix ELSE sym

ensure_suffix(sym, suffix) ==
    IF sym = <<>> THEN sym
    ELSE LET clean_symbol == Strip(sym)
         IN  IF ~EndsWith(clean_symbol, suffix) THEN clean_symbol \o suffix
             ELSE clean_symbol

remove_suffix(sym, suffix) ==
    IF sym = <<>> THEN sym
    ELSE LET clean_symbol == Strip(sym)
         IN  IF EndsWith(clean_symbol, suffix) THEN DropLast(clean_symbol, Len(suffix))
             ELSE clean_symbol

\* The symbols the functions are called with: every string of up to
\* MaxSymbolLen characters of the suffix and the blank.
MaxSymbolLen == 5

MaxCalls == 2

Alphabet == {" ", ".", "N", "S"}

Strings(n) == UNION {[1..k -> Alphabet] : k \in 0..n}

\* run_backtest is not running.
BacktestIdle ==
    /\ strategy = ""
    /\ params = None
    /\ initial_capital = 0
    /\ raw = <<>>
    /\ hist = <<>>
    /\ pc = "idle"
    /\ i = 0
    /\ capital = 0
    /\ shares = 0
    /\ position_open = FALSE
    /\ entry_price = 0
    /\ trades = <<>>
    /\ equity_curve = <<>>
    /\ summary = None
    /\ response = None
    /\ other = None

\* What the next call is made on: the symbol, or the result of the call before.
Current == IF calls = <<>> THEN symbol ELSE calls[Len(calls)].result

EnsureSuffix ==
    /\ Len(calls) < MaxCalls
    /\ calls' = Append(calls, [fn |-> "ensure_suffix", arg |-> Current,
                               result |-> ensure_suffix(Current, DEFAULT_SUFFIX)])
    /\ UNCHANGED <<backtest, symbol, csv_state, portfolio_state, limiter_state>>

RemoveSuffix ==
    /\ Len(calls) < MaxCalls
    /\ calls' = Append(calls, [fn |-> "remove_suffix", arg |-> Current,
                               result |-> remove_suffix(Current, DEFAULT_SUFFIX)])
    /\ UNCHANGED <<backtest, symbol, csv_state, portfolio_state, limiter_state>>

InitSuffix ==
    /\ symbol \in Strings(MaxSymbolLen)
    /\ calls = <<>>
    /\ BacktestIdle
    /\ CsvIdle
    /\ PortfolioIdle
    /\ LimiterIdle

NextSuffix == EnsureSuffix \/ RemoveSuffix

SpecSuffix == InitSuffix /\ [][NextSuffix]_vars

\* The function a call applied.
Applied(c, sym) ==
    IF c.fn = "ensure_suffix" THEN ensure_suffix(sym, DEFAULT_SUFFIX)
    ELSE remove_suffix(sym, DEFAULT_SUFFIX)

\* The names of the functions called so far.
Chain == [k \in 1..Len(calls) |-> calls[k].fn]

\* C23: for a non-empty symbol, ensure_suffix gives a string that ends with
\* the suffix and a second ensure_suffix changes nothing; remove_suffix of the
\* ensured symbol, followed by the suffix, is the ensured symbol, and it is
\* remove_suffix of the symbol itself; both functions give the empty string
\* for the empty string, and the same result with blanks around the symbol.
C23_SuffixRoundTrip ==
    /\ symbol # <<>> /\ Len(calls) >= 1 /\ calls[1].fn = "ensure_suffix"
       => EndsWith(calls[1].result, DEFAULT_SUFFIX)
    /\ symbol # <<>> /\ Chain = <<"ensure_suffix", "ensure_suffix">>
       => calls[2].result = calls[1].result
    /\ symbol # <<>> /\ Chain = <<"ensure_suffix", "remove_suffix">>
       => /\ calls[2].result \o DEFAULT_SUFFIX = calls[1].result
          /\ calls[2].result = remove_suffix(symbol, DEFAULT_SUFFIX)
    /\ symbol = <<>> => \A k \in 1..Len(calls) : calls[k].result = <<>>
    /\ symbol # <<>> /\ Len(calls) >= 1
       => /\ calls[1].result = Applied(calls[1], <<" ">> \o symbol)
          /\ calls[1].result = Applied(calls[1], symbol \o <<" ">>)
          /\ calls[1].result = Applied(calls[1], <<" ">> \o symbol \o <<" ">>)
          /\ Strip(symbol) # <<>> => calls[1].result = Applied(calls[1], Strip(symbol))

\* " N " was given the suffix, which was then removed again.
C23_Witness ==
    /\ symbol = <<" ", "N", " ">>
    /\ Chain = <<"ensure_suffix", "remove_suffix">>
    /\ calls[1].result = <<"N", ".", "N", "S">>
    /\ calls[2].result = <<"N">>

\* ------------------------------------------------------ utils/csv_helper.py

UpperCase == <<"A", "B", "C", "D", "E", "F", "G", "H", "I", "J", "K", "L", "M",
               "N", "O", "P", "Q", "R", "S", "T", "U", "V", "W", "X", "Y", "Z">>

LowerCase == <<"a", "b", "c", "d", "e", "f", "g", "h", "i", "j", "k", "l", "m",
               "n", "o", "p", "q", "r", "s", "t", "u", "v", "w", "x", "y", "z">>

LowerChar(c) ==
    IF \E k \in DOMAIN UpperCase : UpperCase[k] = c
    THEN LowerCase[CHOOSE k \in DOMAIN UpperCase : UpperCase[k] = c]
    ELSE c

\* str.lower()
Lower(s) == [k \in 1..Len(s) |-> LowerChar(s[k])]

\* The texts of this model that pd.read_csv reads as a missing value (they
\* are among its default na_values): the empty field, "NA" and "nan".
NA_VALUES == {<<>>, <<"N", "A">>, <<"n", "a", "n">>}

\* A field as read_csv returns it: NaN for a missing value, else the text.
Cell(text) == [na |-> text \in NA_VALUES, text |-> text]

\* str(value): 'nan' for NaN.
Str(cell) == IF cell.na THEN <<"n", "a", "n">> ELSE cell.text

\* A line without any character; read_csv skips it (skip_blank_lines).
IsBlankLine(line) == Len(line) = 1 /\ line[1] = <<>>

\* pd.read_csv(file_input): the header and one row of fields per line.
read_csv(file) ==
    LET kept == SelectSeq(file.lines, LAMBDA line : ~IsBlankLine(line))
    IN  [columns |-> file.columns,
         rows |-> [k \in 1..Len(kept) |-> [c \in 1..Len(kept[k]) |-> Cell(kept[k][c])]]]

\* [c.strip().lower() for c in df.columns]
NormalizeColumns(columns) == [k \in 1..Len(columns) |-> Lower(Strip(columns[k]))]

COL_SYMBOL == <<"s", "y", "m", "b", "o", "l">>

COL_NAME == <<"n", "a", "m", "e">>

COL_SECTOR == <<"s", "e", "c", "t", "o", "r">>

UNKNOWN == <<"U", "n", "k", "n", "o", "w", "n">>

HasColumn(columns, name) == \E k \in 1..Len(columns) : columns[k] = name

\* row[name]
Field(frame, row, name) ==
    row[CHOOSE k \in 1..Len(frame.columns) : frame.columns[k] = name]

\* row.get(name, default), and the default again for NaN.
FieldOr(frame, row, name, default) ==
    IF HasColumn(frame.columns, name) /\ ~Field(frame, row, name).na
    THEN Field(frame, row, name).text
    ELSE default

\* Whether the loop skips a row.
SkipsRow(raw_symbol) == raw_symbol = <<>> \/ Lower(raw_symbol) = <<"n", "a", "n">>

\* The record of a row that is not skipped.
StockRecord(frame, row) ==
    LET raw_symbol == Strip(Str(Field(frame, row, COL_SYMBOL)))
        formatted_symbol == ensure_suffix(raw_symbol, DEFAULT_SUFFIX)
        clean_symbol == remove_suffix(formatted_symbol, DEFAULT_SUFFIX)
    IN  [symbol |-> formatted_symbol,
         clean_symbol |-> clean_symbol,
         name |-> FieldOr(frame, row, COL_NAME, clean_symbol),
         sector |-> FieldOr(frame, row, COL_SECTOR, UNKNOWN)]

\* The frame with its column names normalized.
ReadFrame == [read_csv(file_input) EXCEPT !.columns = NormalizeColumns(@)]

\* The CSV has no 'symbol' column: ValueError.
ParseRaise ==
    /\ csv_pc = "start"
    /\ ~HasColumn(ReadFrame.columns, COL_SYMBOL)
    /\ df' = ReadFrame
    /\ csv_pc' = "ValueError"
    /\ UNCHANGED <<backtest, formatter_state, file_input, row_no, results,
                   portfolio_state, limiter_state>>

\* The CSV is read and has a 'symbol' column.
ParseRead ==
    /\ csv_pc = "start"
    /\ HasColumn(ReadFrame.columns, COL_SYMBOL)
    /\ df' = ReadFrame
    /\ csv_pc' = "rows"
    /\ UNCHANGED <<backtest, formatter_state, file_input, row_no, results,
                   portfolio_state, limiter_state>>

\* One iteration of the loop over df.iterrows().
ParseRow ==
    /\ csv_pc = "rows"
    /\ row_no < Len(df.rows)
    /\ LET row == df.rows[row_no + 1]
           raw_symbol == Strip(Str(Field(df, row, COL_SYMBOL)))
       IN  results' = IF SkipsRow(raw_symbol) THEN results
                      ELSE Append(results, StockRecord(df, row))
    /\ row_no' = row_no + 1
    /\ UNCHANGED <<backtest, formatter_state, file_input, df, csv_pc,
                   portfolio_state, limiter_state>>

\* return results
ParseReturn ==
    /\ csv_pc = "rows"
    /\ row_no = Len(df.rows)
    /\ csv_pc' = "returned"
    /\ UNCHANGED <<backtest, formatter_state, file_input, df, row_no, results,
                   portfolio_state, limiter_state>>

\* The CSV files of the model: up to MaxRows lines under one of three headers.
MaxRows == 2

SymbolTexts ==
    {<<>>, <<" ">>, <<"T", "C", "S">>, <<" ", "T", "C", "S">>,
     <<"T", "C", "S", ".", "N", "S">>, <<"N", "A", "N">>, <<"N", "A">>}

NameTexts == {<<>>, <<"T", "a", "t", "a">>}

Headers ==
    {<<COL_SYMBOL>>, <<<<"S", "y", "m", "b", "o", "l", " ">>, COL_NAME>>,
     <<COL_NAME, COL_SECTOR>>}

LinesUnder(header) ==
    IF header = <<COL_SYMBOL>> THEN {<<t>> : t \in SymbolTexts}
    ELSE IF header = <<COL_NAME, COL_SECTOR>> THEN {<<t, <<"I", "T">>>> : t \in NameTexts}
    ELSE {<<t, n>> : t \in SymbolTexts, n \in NameTexts}

CsvFiles ==
    UNION {{[columns |-> h, lines |-> ls] : ls \in [1..n -> LinesUnder(h)]}
           : h \in Headers, n \in 0..MaxRows}

InitCsv ==
    /\ file_input \in CsvFiles
    /\ df = None
    /\ row_no = 0
    /\ results = <<>>
    /\ csv_pc = "start"
    /\ BacktestIdle
    /\ FormattersIdle
    /\ PortfolioIdle
    /\ LimiterIdle

NextCsv == ParseRaise \/ ParseRead \/ ParseRow \/ ParseReturn

SpecCsv == InitCsv /\ [][NextCsv]_vars

\* The symbol field of a line, as written in the file.
SymbolText(line) ==
    line[CHOOSE k \in 1..Len(file_input.columns) :
             NormalizeColumns(file_input.columns)[k] = COL_SYMBOL]

\* C24: without a 'symbol' column parse_stock_csv raises ValueError and
\* returns no record; otherwise it returns one record for each line whose
\* symbol is not empty or blank, in the order of the lines, each with symbol =
\* ensure_suffix(the line's symbol) = clean_symbol followed by ".NS".
C24_ParseStockCsv ==
    /\ csv_pc \in {"ValueError", "returned"}
       => (csv_pc = "ValueError"
           <=> ~HasColumn(NormalizeColumns(file_input.columns), COL_SYMBOL))
    /\ csv_pc = "ValueError" => results = <<>>
    /\ csv_pc = "returned"
       => LET kept == SelectSeq(file_input.lines,
                                LAMBDA line : Strip(SymbolText(line)) # <<>>)
          IN  /\ Len(results) = Len(kept)
              /\ \A k \in 1..Len(results) :
                    /\ k <= Len(kept)
                       => results[k].symbol
                          = ensure_suffix(SymbolText(kept[k]), DEFAULT_SUFFIX)
                    /\ results[k].symbol = results[k].clean_symbol \o DEFAULT_SUFFIX

\* ------------------------------------------- services/portfolio_service.py
\* The transaction table holds one row per accepted transaction; the price
\* and the date of a row play no part in the quantities and are left out.
\* Every request has a database session of its own.

\* The keys of stock_metadata, and a symbol that is not among them.
Universe == {"TCS"}

RequestSymbols == Universe \cup {"XYZ"}

\* TransactionRequest.type is any string; "buy" stands for the ones that are
\* neither "BUY" nor "SELL".
RequestTypes == {"BUY", "SELL", "buy"}

MaxQuantity == 2

MaxTransactions == 3

NumSessions == 2

Sessions == 1..NumSessions

Requests == [symbol : RequestSymbols, type : RequestTypes, quantity : 1..MaxQuantity]

RECURSIVE SumQty(_)
SumQty(rows) ==
    IF rows = {} THEN 0
    ELSE LET t == CHOOSE t \in rows : TRUE
         IN  (IF t.type = "BUY" THEN t.quantity ELSE 0 - t.quantity) + SumQty(rows \ {t})

\* _get_holding_qty(symbol, session): BUY rows add, every other row subtracts.
get_holding_qty(sym, table) == SumQty({t \in table : t.symbol = sym})

\* The primary key the table gives a new row.
NextId(table) ==
    IF table = {} THEN 1
    ELSE 1 + CHOOSE n \in {t.id : t \in table} : \A t \in table : t.id <= n

IdleSession == [stage |-> "idle", returned |-> None]

\* add_transaction up to "return False": the symbol is not in the universe.
AddRejectSymbol(s, txn) ==
    /\ sessions[s].stage = "idle"
    /\ txn.symbol \notin Universe
    /\ sessions' = [sessions EXCEPT ![s] = [stage |-> "idle", returned |-> FALSE]]
    /\ UNCHANGED <<backtest, formatter_state, csv_state, transactions, limiter_state>>

\* add_transaction up to "return False": a SELL of more than is held.
AddRejectSell(s, txn) ==
    /\ sessions[s].stage = "idle"
    /\ txn.symbol \in Universe
    /\ txn.type = "SELL"
    /\ get_holding_qty(txn.symbol, transactions) < txn.quantity
    /\ sessions' = [sessions EXCEPT ![s] = [stage |-> "idle", returned |-> FALSE]]
    /\ UNCHANGED <<backtest, formatter_state, csv_state, transactions, limiter_state>>

\* add_transaction up to the end of the validation: the row is to be written.
AddValidate(s, txn) ==
    /\ sessions[s].stage = "idle"
    /\ txn.symbol \in Universe
    /\ txn.type = "SELL" => get_holding_qty(txn.symbol, transactions) >= txn.quantity
    /\ sessions' = [sessions EXCEPT ![s] = [stage |-> "validated", txn |-> txn,
                                            returned |-> None]]
    /\ UNCHANGED <<backtest, formatter_state, csv_state, transactions, limiter_state>>

\* add_transaction from session.add to "return True".
AddCommit(s) ==
    /\ sessions[s].stage = "validated"
    /\ Cardinality(transactions) < MaxTransactions
    /\ transactions' = transactions \cup
                         {[id |-> NextId(transactions), symbol |-> sessions[s].txn.symbol,
                           type |-> sessions[s].txn.type,
                           quantity |-> sessions[s].txn.quantity]}
    /\ sessions' = [sessions EXCEPT ![s] = [stage |-> "idle", returned |-> TRUE]]
    /\ UNCHANGED <<backtest, formatter_state, csv_state, limiter_state>>

\* delete_transaction of a row that exists.
DeleteTransaction(s, transaction_id) ==
    /\ sessions[s].stage = "idle"
    /\ \E t \in transactions : t.id = transaction_id
    /\ transactions' = {t \in transactions : t.id # transaction_id}
    /\ sessions' = [sessions EXCEPT ![s] = [stage |-> "idle", returned |-> TRUE]]
    /\ UNCHANGED <<backtest, formatter_state, csv_state, limiter_state>>

\* delete_transaction of an id that is not in the table.
DeleteMissing(s, transaction_id) ==
    /\ sessions[s].stage = "idle"
    /\ ~\E t \in transactions : t.id = transaction_id
    /\ sessions' = [sessions EXCEPT ![s] = [stage |-> "idle", returned |-> FALSE]]
    /\ UNCHANGED <<backtest, formatter_state, csv_state, transactions, limiter_state>>

InitPortfolio ==
    /\ transactions = {}
    /\ sessions = [s \in Sessions |-> IdleSession]
    /\ BacktestIdle
    /\ FormattersIdle
    /\ CsvIdle
    /\ LimiterIdle

NextPortfolio ==
    \/ \E s \in Sessions, txn \in Requests : AddRejectSymbol(s, txn)
    \/ \E s \in Sessions, txn \in Requests : AddRejectSell(s, txn)
    \/ \E s \in Sessions, txn \in Requests : AddValidate(s, txn)
    \/ \E s \in Sessions : AddCommit(s)
    \/ \E s \in Sessions, transaction_id \in 1..MaxTransactions :
          DeleteTransaction(s, transaction_id)
    \/ \E s \in Sessions, transaction_id \in 1..MaxTransactions :
          DeleteMissing(s, transaction_id)

SpecPortfolio == InitPortfolio /\ [][NextPortfolio]_vars

\* C29: whatever add_transaction and delete_transaction calls were made, on
\* one session or on several at once, the net quantity of every symbol (BUY
\* quantities minus the quantities of the other rows) is not negative.
C29_NetNonNegative ==
    \A sym \in RequestSymbols : get_holding_qty(sym, transactions) >= 0

\* ------------------------------------------------- middleware/rate_limit.py
\* Time is counted in ticks, TicksPerSecond to the second, and a token count
\* in TicksPerSecond-ths of a token, so that every quantity is an integer.

TicksPerSecond == 2

\* The arguments the middleware is built with.
requests_per_minute == 3

requests_per_second == 1

burst_size == 2

\* The 60 seconds of "minute_ago = now - 60".
MINUTE_SECONDS == 60

MaxChecks == 5

ClientIps == {"10.0.0.1", "10.0.0.2"}

\* The time between a call and the call before: none, a tick, a second, a
\* tick less than a minute (and so, over two calls, a minute).
Advances == {0, 1, TicksPerSecond, MINUTE_SECONDS * TicksPerSecond - 1}

\* self.minute_requests[ip] and self.buckets[ip] of the defaultdicts; the
\* bucket of a new ip is full.
MinuteLog(ip) == IF ip \in DOMAIN minute_requests THEN minute_requests[ip] ELSE <<>>

Bucket(ip, at) ==
    IF ip \in DOMAIN buckets THEN buckets[ip]
    ELSE [tokens |-> burst_size * TicksPerSecond, last_update |-> at]

\* [t for t in self.minute_requests[ip] if t > minute_ago]
Recent(log, at) ==
    SelectSeq(log, LAMBDA t : t > at - MINUTE_SECONDS * TicksPerSecond)

\* min(self.minute_requests[ip])
Oldest(log) == CHOOSE t \in {log[k] : k \in 1..Len(log)} : \A k \in 1..Len(log) : t <= log[k]

\* Mutant of OverMinuteLimit: the limit is passed only above it.
OverMinuteLimit_Above(log) == Len(log) > requests_per_minute

OverMinuteLimit(log) == Len(log) >= requests_per_minute

\* min(self.burst_size, tokens + time_passed * self.requests_per_second)
Refill(bucket, at) ==
    LET time_passed == at - bucket.last_update
    IN  Min(burst_size * TicksPerSecond, bucket.tokens + time_passed * requests_per_second)

\* Put or replace a key of a dict.
SetKey(dict, key, value) ==
    [k \in DOMAIN dict \cup {key} |-> IF k = key THEN value ELSE dict[k]]

\* _check_rate_limit(ip), dt after the call before: denied by the per-minute
\* limit.
CheckDeniedMinute(ip, dt) ==
    /\ Len(verdict) < MaxChecks
    /\ now' = now + dt
    /\ LET log == Recent(MinuteLog(ip), now')
       IN  /\ OverMinuteLimit(log)
           /\ minute_requests' = SetKey(minute_requests, ip, log)
           /\ verdict' = Append(verdict,
                 [ip |-> ip, at |-> now', allowed |-> FALSE,
                  reason |-> "Too many requests. Rate limit exceeded.",
                  retry_after |-> ((Oldest(log) + MINUTE_SECONDS * TicksPerSecond - now')
                                   \div TicksPerSecond) + 1])
    /\ UNCHANGED <<backtest, formatter_state, csv_state, portfolio_state, buckets>>

\* Denied by the token bucket: the bucket is read, and not written.
CheckDeniedTokens(ip, dt) ==
    /\ Len(verdict) < MaxChecks
    /\ now' = now + dt
    /\ LET log == Recent(MinuteLog(ip), now')
           tokens == Refill(Bucket(ip, now'), now')
       IN  /\ ~OverMinuteLimit(log)
           /\ tokens < TicksPerSecond
           /\ minute_requests' = SetKey(minute_requests, ip, log)
           /\ buckets' = SetKey(buckets, ip, Bucket(ip, now'))
           /\ verdict' = Append(verdict,
                 [ip |-> ip, at |-> now', allowed |-> FALSE,
                  reason |-> "Rate limit exceeded. Please slow down.",
                  retry_after |-> ((TicksPerSecond - tokens)
                                   \div (TicksPerSecond * requests_per_second)) + 1])
    /\ UNCHANGED <<backtest, formatter_state, csv_state, portfolio_state>>

\* Allowed: a token is consumed and the call is logged.
CheckAllowed(ip, dt) ==
    /\ Len(verdict) < MaxChecks
    /\ now' = now + dt
    /\ LET log == Recent(MinuteLog(ip), now')
           tokens == Refill(Bucket(ip, now'), now')
       IN  /\ ~OverMinuteLimit(log)
           /\ tokens >= TicksPerSecond
           /\ buckets' = SetKey(buckets, ip, [tokens |-> tokens - TicksPerSecond,
                                              last_update |-> now'])
           /\ minute_requests' = SetKey(minute_requests, ip, Append(log, now'))
           /\ verdict' = Append(verdict, [ip |-> ip, at |-> now', allowed |-> TRUE,
                                          reason |-> "", retry_after |-> 0])
    /\ UNCHANGED <<backtest, formatter_state, csv_state, portfolio_state>>

InitLimiter ==
    /\ now = 0
    /\ buckets = <<>>
    /\ minute_requests = <<>>
    /\ verdict = <<>>
    /\ BacktestIdle
    /\ FormattersIdle
    /\ CsvIdle
    /\ PortfolioIdle

NextLimiter ==
    \/ \E ip \in ClientIps, dt \in Advances : CheckDeniedMinute(ip, dt)
    \/ \E ip \in ClientIps, dt \in Advances : CheckDeniedTokens(ip, dt)
    \/ \E ip \in ClientIps, dt \in Advances : CheckAllowed(ip, dt)

SpecLimiter == InitLimiter /\ [][NextLimiter]_vars

\* The allowed calls of an ip in the minute that ends with the time "at".
AllowedInMinute(ip, at) ==
    {k \in 1..Len(verdict) :
        /\ verdict[k].allowed
        /\ verdict[k].ip = ip
        /\ verdict[k].at > at - MINUTE_SECONDS * TicksPerSecond
        /\ verdict[k].at <= at}

C30_Limits ==
    /\ \A k \in 1..Len(verdict) :
          /\ verdict[k].allowed
             => Cardinality(AllowedInMinute(verdict[k].ip, verdict[k].at))
                <= requests_per_minute
          /\ ~verdict[k].allowed => verdict[k].retry_after >= 1
    /\ \A ip \in DOMAIN buckets :
          /\ buckets[ip].tokens >= 0
          /\ buckets[ip].tokens <= burst_size * TicksPerSecond

C30_Denied ==
    verdict' # verdict /\ ~Last(verdict').allowed
    => LET ip == Last(verdict').ip
       IN  /\ ip \in DOMAIN buckets => buckets' = buckets
           /\ ip \notin DOMAIN buckets /\ ip \in DOMAIN buckets'
              => buckets' = SetKey(buckets, ip, [tokens |-> burst_size * TicksPerSecond,
                                                 last_update |-> now'])
           /\ Len(minute_requests'[ip]) <= Len(MinuteLog(ip))
           /\ \A k \in 1..Len(minute_requests'[ip]) :
                 \E j \in k..Len(MinuteLog(ip)) : MinuteLog(ip)[j] = minute_requests'[ip][k]
           /\ \A other_ip \in DOMAIN minute_requests \ {ip} :
                 minute_requests'[other_ip] = minute_requests[other_ip]

\* C30: for every ip and calls at non-decreasing times, the allowed calls of
\* any minute (the time of its first instant left out) are at most
\* requests_per_minute; a bucket holds between 0 and burst_size tokens; a
\* denied call takes no token and is not added to the minute log; and every
\* denial comes with retry_after >= 1.
C30_RateLimit == []C30_Limits /\ [][C30_Denied]_vars

\* One ip was denied by the token bucket and, later, by the per-minute limit.
C30_Witness ==
    \E j, k \in 1..Len(verdict) :
        /\ j < k
        /\ verdict[j].ip = verdict[k].ip
        /\ verdict[j].reason = "Rate limit exceeded. Please slow down."
        /\ verdict[k].reason = "Too many requests. Rate limit exceeded."
        /\ Cardinality(AllowedInMinute(verdict[k].ip, verdict[k].at)) = requests_per_minute
====
